---- MODULE Spec2Model ----
(***************************************************************************)
(* chronoflow: the Engine's start/stop/worker protocol                     *)
(* (src/engine/engine.py) and the ActivitySession state machine            *)
(* (src/tracker/activity_session.py) driven by the engine loop.            *)
(***************************************************************************)
EXTENDS Integers, Sequences, FiniteSets, TLC

(***************************************************************************)
(* Bounds of the model.                                                    *)
(***************************************************************************)
\* Threads the model lets start() spawn in one behaviour.
MaxWorkers == 2

\* threading.Thread ids; 0 stands for tracking_thread = None.
Workers == 1..MaxWorkers
NoThread == 0

\* A datetime or a timedelta is held as a whole number of ticks, Second of
\* them to a second, so that intervals under a second exist.
Second == 2

\* Threads that call Engine.start() / Engine.stop(): the GUI thread
\* (core.py) and one other caller.
Callers == {"gui", "other"}

VARIABLES
    is_running,       \* Engine.is_running
    should_stop,      \* Engine.should_stop (threading.Event): TRUE when set
    tracking_thread,  \* Engine.tracking_thread: a worker id or NoThread
    wpc,              \* position of each worker thread in _track_activity
    cpc,              \* position of each caller inside start() / stop()
    since_start,      \* history: the worker spawned by the last start() that
                      \* returned normally, NoThread once any stop() is called
    slept,            \* history: each worker has slept since it last polled
                      \* the tracker, or has not polled it yet
    now,              \* the clock: the last datetime.now() reading, in ticks
                      \* (Second to a second) since a Monday 00:00
    nsamples,         \* loop iterations completed
    polled,           \* the ActivityData built in the last iteration
    current_activity, \* ActivitySession.current_activity
    activity_start,   \* ActivitySession.activity_start
    idle_start,       \* ActivitySession.idle_start
    pattern_window,   \* ActivitySession.pattern_window (deque, maxlen 20)
    context,          \* ActivitySession.context (ActivityContext)
    time_log,         \* what session.update() returned in the last iteration
    storage,          \* rows of activities + activity_context, in insert order
    api,              \* the last call of the public API from outside the
                      \* loop: the operation, its argument and its outcome
    classifier_rules, \* ActivityClassifier.rules
    rules_file,       \* the rules in the file ActivityClassifier.rules_file
    mutations,        \* calls of the mutations of the rules made so far
    query,            \* the arguments of the last classify_activity call
    verdict           \* what that call returned: [category, confidence]

engineVars == <<is_running, should_stop, tracking_thread, wpc, cpc, since_start, slept>>

sessionVars == <<now, nsamples, polled, current_activity, activity_start, idle_start,
                 pattern_window, context, time_log, storage>>

apiVars == <<api>>

classifierVars == <<classifier_rules, rules_file, mutations, query, verdict>>

vars == <<engineVars, sessionVars, apiVars, classifierVars>>

\* Positions of a worker inside the while loop of _track_activity.
InLoop == {"loop_check", "run_check", "body", "sleep", "except", "except_sleep"}

EngineInit ==
    /\ is_running = FALSE
    /\ should_stop = FALSE
    /\ tracking_thread = NoThread
    /\ wpc = [w \in Workers |-> "unborn"]
    /\ cpc = [c \in Callers |-> "idle"]
    /\ since_start = NoThread
    /\ slept = [w \in Workers |-> TRUE]

(***************************************************************************)
(* Engine.start()                                                          *)
(***************************************************************************)
\* Mutant: start() without the "already running" early return.
StartCall_NoGuard(c) ==
    /\ cpc[c] = "idle"
    /\ cpc' = [cpc EXCEPT ![c] = "start_clear"]
    /\ UNCHANGED <<is_running, should_stop, tracking_thread, wpc, since_start, slept>>

\* start(): `if self.is_running: return` (warning logged).
StartCall(c) ==
    /\ cpc[c] = "idle"
    /\ cpc' = [cpc EXCEPT ![c] = IF is_running THEN "idle" ELSE "start_clear"]
    /\ UNCHANGED <<is_running, should_stop, tracking_thread, wpc, since_start, slept>>

\* self.should_stop.clear()
StartClear(c) ==
    /\ cpc[c] = "start_clear"
    /\ should_stop' = FALSE
    /\ cpc' = [cpc EXCEPT ![c] = "start_set"]
    /\ UNCHANGED <<is_running, tracking_thread, wpc, since_start, slept>>

\* self.is_running = True
StartSet(c) ==
    /\ cpc[c] = "start_set"
    /\ is_running' = TRUE
    /\ cpc' = [cpc EXCEPT ![c] = "start_spawn"]
    /\ UNCHANGED <<should_stop, tracking_thread, wpc, since_start, slept>>

\* The next thread to be created.
NextWorker == CHOOSE w \in Workers :
                 /\ wpc[w] = "unborn"
                 /\ \A v \in Workers : wpc[v] = "unborn" => w <= v

\* self.tracking_thread = Thread(target=self._track_activity); .start()
StartSpawn(c) ==
    /\ cpc[c] = "start_spawn"
    /\ \E w \in Workers : wpc[w] = "unborn"
    /\ tracking_thread' = NextWorker
    /\ wpc' = [wpc EXCEPT ![NextWorker] = "loop_check"]
    /\ since_start' = NextWorker
    /\ cpc' = [cpc EXCEPT ![c] = "idle"]
    /\ UNCHANGED <<is_running, should_stop, slept>>

\* Thread creation raised: is_running = False, tracking_thread = None, re-raise.
StartSpawnFail(c) ==
    /\ cpc[c] = "start_spawn"
    /\ is_running' = FALSE
    /\ tracking_thread' = NoThread
    /\ cpc' = [cpc EXCEPT ![c] = "idle"]
    /\ UNCHANGED <<should_stop, wpc, since_start, slept>>

(***************************************************************************)
(* Engine.stop()                                                           *)
(***************************************************************************)
\* stop(): `if not self.is_running: return`
StopCall(c) ==
    /\ cpc[c] = "idle"
    /\ cpc' = [cpc EXCEPT ![c] = IF is_running THEN "stop_set" ELSE "idle"]
    /\ since_start' = NoThread
    /\ UNCHANGED <<is_running, should_stop, tracking_thread, wpc, slept>>

\* self.should_stop.set()
StopSet(c) ==
    /\ cpc[c] = "stop_set"
    /\ should_stop' = TRUE
    /\ cpc' = [cpc EXCEPT ![c] = "stop_clear_running"]
    /\ UNCHANGED <<is_running, tracking_thread, wpc, since_start, slept>>

\* Mutant: stop() that forgets to clear is_running.
StopClearRunning_Keep(c) ==
    /\ cpc[c] = "stop_clear_running"
    /\ cpc' = [cpc EXCEPT ![c] = "stop_join"]
    /\ UNCHANGED <<is_running, should_stop, tracking_thread, wpc, since_start, slept>>

\* self.is_running = False
StopClearRunning(c) ==
    /\ cpc[c] = "stop_clear_running"
    /\ is_running' = FALSE
    /\ cpc' = [cpc EXCEPT ![c] = "stop_join"]
    /\ UNCHANGED <<should_stop, tracking_thread, wpc, since_start, slept>>

\* `if self.tracking_thread:` join(timeout=5.0) ... finally tracking_thread =
\* None.  The join ends because the worker exited or because the timeout
\* elapsed (the worker may be anywhere in its iteration or asleep); an error
\* in join is caught; every path ends in the finally clause.
StopJoin(c) ==
    /\ cpc[c] = "stop_join"
    /\ tracking_thread' = NoThread
    /\ cpc' = [cpc EXCEPT ![c] = "idle"]
    /\ UNCHANGED <<is_running, should_stop, wpc, since_start, slept>>

(***************************************************************************)
(* Engine._track_activity(): the worker thread                             *)
(***************************************************************************)
\* `while not self.should_stop.is_set():`
LoopCheck(w) ==
    /\ wpc[w] = "loop_check"
    /\ wpc' = [wpc EXCEPT ![w] = IF should_stop THEN "finally" ELSE "run_check"]
    /\ UNCHANGED <<is_running, should_stop, tracking_thread, cpc, since_start, slept>>

\* `if not self.is_running: break`
RunCheck(w) ==
    /\ wpc[w] = "run_check"
    /\ wpc' = [wpc EXCEPT ![w] = IF is_running THEN "body" ELSE "finally"]
    /\ UNCHANGED <<is_running, should_stop, tracking_thread, cpc, since_start, slept>>

\* Mutant: an exception in the iteration escapes the loop.
BodyRaise_Escape(w) ==
    /\ wpc[w] = "body"
    /\ wpc' = [wpc EXCEPT ![w] = "finally"]
    /\ slept' = [slept EXCEPT ![w] = FALSE]
    /\ UNCHANGED <<is_running, should_stop, tracking_thread, cpc, since_start>>

\* Poll the tracker, classify, update the session, log: no exception.
BodyOk(w) ==
    /\ wpc[w] = "body"
    /\ wpc' = [wpc EXCEPT ![w] = "sleep"]
    /\ slept' = [slept EXCEPT ![w] = FALSE]
    /\ UNCHANGED <<is_running, should_stop, tracking_thread, cpc, since_start>>

\* The tracker, the classifier or the session raised: `except Exception`.
\* (A storage failure is caught by the inner handler and ends as BodyOk.)
BodyRaise(w) ==
    /\ wpc[w] = "body"
    /\ wpc' = [wpc EXCEPT ![w] = "except"]
    /\ slept' = [slept EXCEPT ![w] = FALSE]
    /\ UNCHANGED <<is_running, should_stop, tracking_thread, cpc, since_start>>

\* time.sleep(self.sampling_interval) at the end of the iteration.
Sleep(w) ==
    /\ wpc[w] = "sleep"
    /\ wpc' = [wpc EXCEPT ![w] = "loop_check"]
    /\ slept' = [slept EXCEPT ![w] = TRUE]
    /\ UNCHANGED <<is_running, should_stop, tracking_thread, cpc, since_start>>

\* The handler: `if not self.should_stop.is_set(): time.sleep(...)`.
Except(w) ==
    /\ wpc[w] = "except"
    /\ wpc' = [wpc EXCEPT ![w] = IF should_stop THEN "loop_check" ELSE "except_sleep"]
    /\ UNCHANGED <<is_running, should_stop, tracking_thread, cpc, since_start, slept>>

ExceptSleep(w) ==
    /\ wpc[w] = "except_sleep"
    /\ wpc' = [wpc EXCEPT ![w] = "loop_check"]
    /\ slept' = [slept EXCEPT ![w] = TRUE]
    /\ UNCHANGED <<is_running, should_stop, tracking_thread, cpc, since_start>>

\* `finally: self.is_running = False`
Finally(w) ==
    /\ wpc[w] = "finally"
    /\ is_running' = FALSE
    /\ wpc' = [wpc EXCEPT ![w] = "done"]
    /\ UNCHANGED <<should_stop, tracking_thread, cpc, since_start, slept>>

WorkerStep(w) ==
    /\ \/ LoopCheck(w)
       \/ RunCheck(w)
       \/ BodyOk(w)
       \/ BodyRaise(w)
       \/ Sleep(w)
       \/ Except(w)
       \/ ExceptSleep(w)
       \/ Finally(w)
    /\ UNCHANGED <<sessionVars, apiVars, classifierVars>>

CallerStep(c) ==
    /\ \/ StartCall(c)
       \/ StartClear(c)
       \/ StartSet(c)
       \/ StartSpawn(c)
       \/ StartSpawnFail(c)
       \/ StopCall(c)
       \/ StopSet(c)
       \/ StopClearRunning(c)
       \/ StopJoin(c)
    /\ UNCHANGED <<sessionVars, apiVars, classifierVars>>

(***************************************************************************)
(* Strings.  A Python str is a sequence of one-character strings, so that  *)
(* lower(), fnmatch and difflib work on its characters.                    *)
(***************************************************************************)
\* str.lower() on one character: the letters A to Z.
UpperCase == <<"A", "B", "C", "D", "E", "F", "G", "H", "I", "J", "K", "L", "M",
               "N", "O", "P", "Q", "R", "S", "T", "U", "V", "W", "X", "Y", "Z">>

LowerCase == <<"a", "b", "c", "d", "e", "f", "g", "h", "i", "j", "k", "l", "m",
               "n", "o", "p", "q", "r", "s", "t", "u", "v", "w", "x", "y", "z">>

LowerOf == [ch \in {UpperCase[i] : i \in 1..26} |->
              LowerCase[CHOOSE i \in 1..26 : UpperCase[i] = ch]]

LowerChar(ch) == IF ch \in DOMAIN LowerOf THEN LowerOf[ch] ELSE ch

\* str.lower()
Lower(str) == [i \in 1..Len(str) |-> LowerChar(str[i])]

\* fnmatch.fnmatch(text, pat) from position i of text and j of pat: `*`
\* matches any run of characters, `?` any one character, anything else itself
\* (the model's strings hold no `[`).
RECURSIVE GlobMatch(_, _, _, _)
GlobMatch(text, pat, i, j) ==
    IF j > Len(pat) THEN i > Len(text)
    ELSE IF pat[j] = "*"
         THEN \/ GlobMatch(text, pat, i, j + 1)
              \/ (i <= Len(text) /\ GlobMatch(text, pat, i + 1, j))
    ELSE IF i > Len(text) THEN FALSE
    ELSE IF pat[j] = "?" \/ pat[j] = text[i]
         THEN GlobMatch(text, pat, i + 1, j + 1)
    ELSE FALSE

\* ActivityClassifier._match_pattern: fnmatch.fnmatch(text, pattern.lower())
MatchPattern(text, pat) == GlobMatch(text, Lower(pat), 1, 1)

\* Length of the common run of a from i and b from j, inside a[..ahi-1],
\* b[..bhi-1].
RECURSIVE MatchLen(_, _, _, _, _, _)
MatchLen(a, b, i, j, ahi, bhi) ==
    IF i < ahi /\ j < bhi /\ a[i] = b[j]
    THEN 1 + MatchLen(a, b, i + 1, j + 1, ahi, bhi)
    ELSE 0

\* difflib.SequenceMatcher.find_longest_match(alo, ahi, blo, bhi) without
\* junk: the longest common block, of those the one starting earliest in a,
\* of those the one starting earliest in b.  <<i, j, size>>.
LongestMatch(a, b, alo, ahi, blo, bhi) ==
    LET cands == (alo..(ahi - 1)) \X (blo..(bhi - 1))
        size(c) == MatchLen(a, b, c[1], c[2], ahi, bhi)
        best == CHOOSE c \in cands :
                  \A d \in cands :
                     \/ size(c) > size(d)
                     \/ /\ size(c) = size(d)
                        /\ \/ c[1] < d[1]
                           \/ (c[1] = d[1] /\ c[2] <= d[2])
    IN IF cands = {} THEN <<alo, blo, 0>>
       ELSE <<best[1], best[2], size(best)>>

\* Sum of the sizes of difflib's get_matching_blocks(): the longest match,
\* then the same to its left and to its right.
RECURSIVE MatchingSize(_, _, _, _, _, _)
MatchingSize(a, b, alo, ahi, blo, bhi) ==
    LET m == LongestMatch(a, b, alo, ahi, blo, bhi)
    IN IF m[3] = 0 THEN 0
       ELSE m[3]
            + (IF alo < m[1] /\ blo < m[2]
               THEN MatchingSize(a, b, alo, m[1], blo, m[2]) ELSE 0)
            + (IF m[1] + m[3] < ahi /\ m[2] + m[3] < bhi
               THEN MatchingSize(a, b, m[1] + m[3], ahi, m[2] + m[3], bhi)
               ELSE 0)

\* A score in [0,1] is held as the integer score * Scale.  Every string of
\* the model has at most 5 characters, so every ratio 2*M/T has T <= 10, a
\* divisor of Scale, as are 180 (time score), 10 and 5: no rounding happens.
Scale == 2520

\* difflib.SequenceMatcher(None, a, b).ratio(): 2*M/T, and 1.0 when T = 0.
Ratio(a, b) ==
    LET T == Len(a) + Len(b)
    IN IF T = 0 THEN Scale
       ELSE (2 * MatchingSize(a, b, 1, Len(a) + 1, 1, Len(b) + 1) * Scale) \div T

(***************************************************************************)
(* ActivityClassifier (src/classifier/classifier.py)                       *)
(***************************************************************************)
\* Optional[...] = None
None == "none"

\* ActivityCategory
Categories == {"work", "study", "hobby", "relax", "health", "exercise",
               "social", "idle", "other"}

\* timestamp.strftime("%A"): the clock counts from a Monday 00:00.
DayNames == <<"Monday", "Tuesday", "Wednesday", "Thursday", "Friday",
              "Saturday", "Sunday">>

DayOf(t) == DayNames[((t \div (86400 * Second)) % 7) + 1]

\* timestamp.strftime("%H:%M") as minutes since midnight; a time range
\* "HH:MM-HH:MM" is the pair of its two ends in minutes (the code compares
\* the zero-padded strings, which orders them as the minutes do).
MinuteOf(t) == (t \div (60 * Second)) % 1440

\* timestamp.hour
HourOf(t) == (t \div (3600 * Second)) % 24

\* max() of a non-empty sequence of scores
RECURSIVE MaxOf(_)
MaxOf(xs) ==
    IF Len(xs) = 1 THEN xs[1]
    ELSE LET m == MaxOf(Tail(xs)) IN IF xs[1] >= m THEN xs[1] ELSE m

\* ActivityClassifier._calculate_pattern_score (text and pattern lowered by
\* the caller): 1.0 exact, 0.9 for a pattern with `*` that matches, else
\* the difflib ratio.
PatternScore(text, pat) ==
    IF pat = text THEN Scale
    ELSE IF (\E i \in 1..Len(pat) : pat[i] = "*") /\ MatchPattern(text, pat)
         THEN (9 * Scale) \div 10
    ELSE Ratio(text, pat)

\* match_score(text, pattern): _calculate_pattern_score as classify_activity
\* calls it, on text.lower() and pattern.lower().
MatchScore(text, pat) == PatternScore(Lower(text), Lower(pat))

\* ActivityClassifier._is_time_in_range
IsTimeInRange(minute, range) == range.start <= minute /\ minute <= range.end

Abs(x) == IF x < 0 THEN -x ELSE x

\* ActivityClassifier._calculate_time_score: 1.0 inside the range, else
\* max(0, 1 - distance/180) to the nearer end.
TimeScore(minute, range) ==
    IF IsTimeInRange(minute, range) THEN Scale
    ELSE LET d1 == Abs(minute - range.start)
             d2 == Abs(minute - range.end)
             dist == IF d1 <= d2 THEN d1 ELSE d2
         IN IF dist >= 180 THEN 0 ELSE ((180 - dist) * Scale) \div 180

\* total_score * 10, for one pattern of a rule set (classify_activity, the
\* body of the inner loop).
TotalScore(pattern, app_name, window_title, timestamp) ==
    LET app_score == MaxOf([i \in 1..Len(pattern.apps) |->
                              PatternScore(Lower(app_name), Lower(pattern.apps[i]))])
        title_score == MaxOf([i \in 1..Len(pattern.titles) |->
                              PatternScore(Lower(window_title), Lower(pattern.titles[i]))])
        time_score == IF Len(pattern.time_ranges) > 0
                      THEN MaxOf([i \in 1..Len(pattern.time_ranges) |->
                                    TimeScore(MinuteOf(timestamp), pattern.time_ranges[i])])
                      ELSE Scale
        day_score == IF Len(pattern.days) > 0
                     THEN IF \E i \in 1..Len(pattern.days) :
                               pattern.days[i] = DayOf(timestamp)
                          THEN Scale ELSE (2 * Scale) \div 10
                     ELSE Scale
    IN 4 * app_score + 4 * title_score + time_score + day_score

\* The inner loop of classify_activity over the patterns of one rule set,
\* from pattern k on.  best = [match, score, priority]; score is
\* highest_score * 10 * Scale; match = None stands for highest_priority =
\* inf as well.
RECURSIVE ScanPatterns(_, _, _, _, _, _)
ScanPatterns(rule_set, k, best, app_name, window_title, timestamp) ==
    IF k > Len(rule_set.patterns) THEN best
    ELSE LET total == TotalScore(rule_set.patterns[k], app_name, window_title,
                                 timestamp)
             nxt == IF total > best.score
                    THEN [match |-> rule_set.category, score |-> total,
                          priority |-> rule_set.priority]
                    ELSE best
         IN ScanPatterns(rule_set, k + 1, nxt, app_name, window_title, timestamp)

\* The outer loop of classify_activity over self.rules.rules.items(), in
\* the order of the dict, from rule set k on.
RECURSIVE ScanRules(_, _, _, _, _, _)
ScanRules(rule_sets, k, best, app_name, window_title, timestamp) ==
    IF k > Len(rule_sets) THEN best
    ELSE LET rule_set == rule_sets[k]
             nxt == IF best.match # None /\ rule_set.priority >= best.priority
                    THEN best
                    ELSE ScanPatterns(rule_set, 1, best, app_name, window_title,
                                      timestamp)
         IN ScanRules(rule_sets, k + 1, nxt, app_name, window_title, timestamp)

\* Mutant: the text is matched without being lowered.
ShouldExcludeActivity_CaseSensitive(rules, app_name, window_title) ==
    \/ \E i \in 1..Len(rules.privacy.excluded_apps) :
          MatchPattern(app_name, rules.privacy.excluded_apps[i])
    \/ \E i \in 1..Len(rules.privacy.excluded_titles) :
          MatchPattern(window_title, rules.privacy.excluded_titles[i])

\* ActivityClassifier._should_exclude_activity
ShouldExcludeActivity(rules, app_name, window_title) ==
    \/ \E i \in 1..Len(rules.privacy.excluded_apps) :
          MatchPattern(Lower(app_name), rules.privacy.excluded_apps[i])
    \/ \E i \in 1..Len(rules.privacy.excluded_titles) :
          MatchPattern(Lower(window_title), rules.privacy.excluded_titles[i])

\* Mutant: the idle test is strict.
ClassifyActivity_StrictIdle(rules, app_name, window_title, timestamp, idle_time) ==
    IF idle_time > 300
    THEN [category |-> "idle", confidence |-> 10 * Scale]
    ELSE IF ShouldExcludeActivity(rules, app_name, window_title)
    THEN [category |-> None, confidence |-> 0]
    ELSE LET best == ScanRules(rules.rules, 1,
                               [match |-> None, score |-> 0, priority |-> 0],
                               app_name, window_title, timestamp)
         IN IF best.match = None \/ best.score < 3 * Scale
            THEN [category |-> rules.default.category, confidence |-> 3 * Scale]
            ELSE [category |-> best.match, confidence |-> best.score]

\* ActivityClassifier.classify_activity: [category, confidence], the
\* confidence held as confidence * 10 * Scale.
ClassifyActivity(rules, app_name, window_title, timestamp, idle_time) ==
    IF idle_time >= 300
    THEN [category |-> "idle", confidence |-> 10 * Scale]
    ELSE IF ShouldExcludeActivity(rules, app_name, window_title)
    THEN [category |-> None, confidence |-> 0]
    ELSE LET best == ScanRules(rules.rules, 1,
                               [match |-> None, score |-> 0, priority |-> 0],
                               app_name, window_title, timestamp)
         IN IF best.match = None \/ best.score < 3 * Scale
            THEN [category |-> rules.default.category, confidence |-> 3 * Scale]
            ELSE [category |-> best.match, confidence |-> best.score]

\* The application names and window titles of the model.
AppIde == <<"i", "d", "e">>
AppWeb == <<"w", "e", "b">>
AppPw == <<"p", "w">>
TitlePy == <<"a", ".", "p", "y">>
TitleNone == <<>>
TitleKey == <<"k", "e", "y">>

\* The rule set the classifier was loaded with (_load_rules): the built-in
\* work rule, with the model's short names, and one privacy exclusion.
LoadedRules ==
    [rules |-> << [category |-> "work", priority |-> 1,
                   patterns |-> << [id |-> "p1",
                                    apps |-> << AppIde >>,
                                    titles |-> << <<"*", ".", "p", "y">> >>,
                                    time_ranges |-> << [start |-> 540, end |-> 1020] >>,
                                    days |-> <<"Monday", "Tuesday", "Wednesday",
                                               "Thursday", "Friday">>] >>] >>,
     default |-> [category |-> "other", priority |-> 100],
     metadata |-> [last_updated |-> 0],
     privacy |-> [excluded_apps |-> << <<"P", "w", "*">> >>,
                  excluded_titles |-> << >>]]

(***************************************************************************)
(* ActivitySession (src/tracker/activity_session.py)                       *)
(***************************************************************************)
\* ActivitySession.__init__ defaults
min_duration == 30
context_window == 5
min_focus_duration == 900
max_context_transitions == 20

\* An Optional[datetime] that is None.
NoTime == -1

\* current_activity = None
NoActivity ==
    [timestamp |-> NoTime, application |-> <<>>, window_title |-> <<>>,
     idle_time |-> 0, category |-> None]

\* update() returned None
NoLog ==
    [start_time |-> NoTime, end_time |-> NoTime, category |-> None,
     description |-> [kind |-> None], tags |-> <<>>]

\* ActivityContext()
EmptyContext ==
    [last_activities |-> <<>>,
     category_durations |-> [c \in {} |-> 0],
     activity_patterns |-> <<>>,
     transition_history |-> <<>>,
     focus_score |-> 0,
     productivity_score |-> 0]

\* The session object: the fields update() reads and writes.
Session ==
    [current_activity |-> current_activity,
     activity_start |-> activity_start,
     idle_start |-> idle_start,
     pattern_window |-> pattern_window,
     context |-> context]

\* list(xs)[-n:]
LastN(xs, n) ==
    IF Len(xs) <= n THEN xs ELSE SubSeq(xs, Len(xs) - n + 1, Len(xs))

RECURSIVE SumSeq(_)
SumSeq(xs) == IF xs = <<>> THEN 0 ELSE Head(xs) + SumSeq(Tail(xs))

\* dict.get(key, 0.0)
DictGet(d, key) == IF key \in DOMAIN d THEN d[key] ELSE 0

\* d[key] = value
DictPut(d, key, value) ==
    [k \in (DOMAIN d) \cup {key} |-> IF k = key THEN value ELSE d[k]]

\* pattern_weights of _get_context_multiplier, times 10 (.get(p, 1.0)).
ContextWeight(p) ==
    CASE p = "focused" -> 15
      [] p = "distracted" -> 7
      [] p = "multitasking" -> 10
      [] p = "transitioning" -> 8
      [] OTHER -> 10

\* ActivitySession._get_context_multiplier, as the fraction num / den.
ContextMultiplier(S) ==
    LET recent == LastN(S.pattern_window, 3)
    IN IF S.context.last_activities = <<>> \/ recent = <<>>
       THEN [num |-> 1, den |-> 1]
       ELSE [num |-> SumSeq([i \in 1..Len(recent) |-> ContextWeight(recent[i])]),
             den |-> 10 * Len(recent)]

\* idle_threshold of _handle_idle_state, in seconds.
idle_threshold == 60

\* Mutant: a sample that is not idle leaves the idle timer running.
HandleIdleState_NoCancel(S, activity, t) ==
    IF activity.idle_time > 0
    THEN IF S.idle_start = NoTime
         THEN [idle_start |-> t, fires |-> FALSE]
         ELSE LET m == ContextMultiplier(S)
              IN [idle_start |-> S.idle_start,
                  fires |-> (t - S.idle_start) * m.den
                             > idle_threshold * Second * m.num]
    ELSE [idle_start |-> S.idle_start, fires |-> FALSE]

\* ActivitySession._handle_idle_state: the new idle_start and whether the
\* idle period is to be logged.
HandleIdleState(S, activity, t) ==
    IF activity.idle_time > 0
    THEN IF S.idle_start = NoTime
         THEN [idle_start |-> t, fires |-> FALSE]
         ELSE LET m == ContextMultiplier(S)
              IN [idle_start |-> S.idle_start,
                  fires |-> (t - S.idle_start) * m.den
                             > idle_threshold * Second * m.num]
    ELSE [idle_start |-> NoTime, fires |-> FALSE]

\* ActivitySession._calculate_transition_rate() > num / den.  The rate is
\* count / (total_time / 1e-6), so it exceeds num / den iff
\* count * den > num * total_time * 10^6, total_time being the sum in seconds;
\* count <= 10 and den <= 10, so a sum over 100 ticks decides it (and keeps
\* the product within 32 bits).
TransitionRateAbove(ctx, num, den) ==
    IF Len(ctx.transition_history) < 2 THEN FALSE
    ELSE LET transitions == LastN(ctx.transition_history, 10)
             total_time == SumSeq([i \in 1..Len(transitions) |->
                                     transitions[i].duration])
         IN /\ total_time <= 100
            /\ Len(transitions) * den * Second > num * total_time * 1000000

\* ActivitySession._calculate_average_duration(activities) > limit
AverageDurationAbove(activities, limit) ==
    IF Len(activities) < 2 THEN FALSE
    ELSE SumSeq([i \in 1..(Len(activities) - 1) |->
                   activities[i + 1].timestamp - activities[i].timestamp])
           > limit * (Len(activities) - 1)

\* ActivitySession._detect_activity_pattern
DetectActivityPattern(ctx, activity) ==
    IF ctx.last_activities = <<>> THEN "transitioning"
    ELSE LET recent == ctx.last_activities
             unique_apps == {recent[i].application : i \in 1..Len(recent)}
         IN IF activity.idle_time > 0 THEN "idle"
            ELSE IF Cardinality(unique_apps) = 1
                    /\ AverageDurationAbove(recent, min_focus_duration * Second)
                 THEN "focused"
            ELSE IF Cardinality(unique_apps) > 3 /\ TransitionRateAbove(ctx, 5, 10)
                 THEN "distracted"
            ELSE IF 1 < Cardinality(unique_apps) /\ Cardinality(unique_apps) <= 3
                    /\ TransitionRateAbove(ctx, 3, 10)
                 THEN "multitasking"
            ELSE "transitioning"

\* str.split(): the set of the maximal runs without a blank, from position
\* i on, cur being the run read so far.
RECURSIVE WordsFrom(_, _, _)
WordsFrom(str, i, cur) ==
    IF i > Len(str) THEN (IF cur = <<>> THEN {} ELSE {cur})
    ELSE IF str[i] = " "
         THEN (IF cur = <<>> THEN {} ELSE {cur}) \cup WordsFrom(str, i + 1, <<>>)
    ELSE WordsFrom(str, i + 1, Append(cur, str[i]))

\* set(title.lower().split())
Words(title) == WordsFrom(Lower(title), 1, <<>>)

\* ActivitySession._get_title_similarity, times 10 * Scale:
\* 0.7 * sequence_ratio + 0.3 * word_overlap.
TitleSimilarity(title1, title2) ==
    LET words1 == Words(title1)
        words2 == Words(title2)
        word_overlap == IF words1 = {} \/ words2 = {} THEN 0
                        ELSE (Cardinality(words1 \cap words2) * Scale)
                               \div Cardinality(words1 \cup words2)
    IN 7 * Ratio(title1, title2) + 3 * word_overlap

\* pattern_adjustments of _get_context_transition_threshold, times 10.
TransitionAdjustment(p) ==
    CASE p = "focused" -> 12
      [] p = "distracted" -> 8
      [] p = "multitasking" -> 9
      [] p = "transitioning" -> 10
      [] p = "idle" -> 11
      [] OTHER -> 10

\* ActivitySession._get_context_transition_threshold, as num / den.
ContextTransitionThreshold(S) ==
    LET recent == LastN(S.pattern_window, 3)
    IN IF recent = <<>> THEN [num |-> 1, den |-> 1]
       ELSE [num |-> SumSeq([i \in 1..Len(recent) |->
                               TransitionAdjustment(recent[i])]),
             den |-> 10 * Len(recent)]

\* ActivitySession._should_transition_activity
ShouldTransitionActivity(S, new_activity) ==
    IF S.current_activity = NoActivity THEN TRUE
    ELSE IF new_activity.application # S.current_activity.application THEN TRUE
    ELSE LET adj == ContextTransitionThreshold(S)
         IN TitleSimilarity(new_activity.window_title,
                            S.current_activity.window_title) * adj.den
              < 7 * Scale * adj.num

\* pattern_scores of _calculate_focus_score, times 10.
FocusPatternScore(p) ==
    CASE p = "focused" -> 10
      [] p = "multitasking" -> 7
      [] p = "transitioning" -> 5
      [] p = "distracted" -> 3
      [] p = "idle" -> 0
      [] OTHER -> 5

\* A focus score in [0,1] is held as the integer score * FocusScale (the
\* mean of up to 5 scores with one decimal).
FocusScale == 600

\* ActivitySession._calculate_focus_score
CalculateFocusScore(window) ==
    IF window = <<>> THEN FocusScale \div 2
    ELSE LET recent == LastN(window, 5)
         IN (SumSeq([i \in 1..Len(recent) |-> FocusPatternScore(recent[i])])
               * (FocusScale \div 10)) \div Len(recent)

\* ActivitySession._generate_activity_tags
GenerateActivityTags(S, focus_score) ==
    <<"auto-tracked">>
    \o (IF S.current_activity # NoActivity
        THEN <<"pattern:" \o DetectActivityPattern(S.context, S.current_activity)>>
        ELSE <<>>)
    \o (IF 10 * focus_score >= 8 * FocusScale THEN <<"high-focus">>
        ELSE IF 10 * focus_score <= 3 * FocusScale THEN <<"low-focus">>
        ELSE <<>>)

\* ActivitySession._create_time_log (with _create_enhanced_description: the
\* description string is held as the values it is formatted from).
CreateTimeLog(S, end_time) ==
    IF S.current_activity = NoActivity \/ S.activity_start = NoTime THEN NoLog
    ELSE LET focus_score == CalculateFocusScore(S.pattern_window)
         IN [start_time |-> S.activity_start,
             end_time |-> end_time,
             category |-> IF S.current_activity.category # None
                          THEN S.current_activity.category ELSE "other",
             description |->
                 [kind |-> "auto",
                  application |-> S.current_activity.application,
                  window_title |-> S.current_activity.window_title,
                  pattern |-> DetectActivityPattern(S.context, S.current_activity),
                  focus |-> focus_score],
             tags |-> GenerateActivityTags(S, focus_score)]

\* ActivitySession._start_new_activity.  self.activity_start is assigned
\* before the duration is computed, so the duration added is
\* timestamp - timestamp.
StartNewActivity(S, activity, timestamp) ==
    [S EXCEPT !.current_activity = activity,
              !.activity_start = timestamp,
              !.context.last_activities = Append(@, activity),
              !.context.category_durations =
                  IF activity.category # None
                  THEN DictPut(@, activity.category,
                               DictGet(@, activity.category)
                                 + (timestamp - timestamp))
                  ELSE @]

\* Mutant: a transition is logged whatever the activity's duration.
HandleActivityTransition_NoMinimum(S, new_activity, t) ==
    IF S.activity_start = NoTime
    THEN [session |-> StartNewActivity(S, new_activity, t), time_log |-> NoLog]
    ELSE LET duration == t - S.activity_start
             logged == CreateTimeLog(S, t)
             transition == [from_activity |-> S.current_activity,
                            to_activity |-> new_activity,
                            timestamp |-> t,
                            duration |-> duration,
                            pattern |-> DetectActivityPattern(S.context, new_activity)]
             recorded == [S EXCEPT !.context.transition_history =
                                       Append(@, transition)]
         IN [session |-> StartNewActivity(recorded, new_activity, t),
             time_log |-> logged]

\* Mutant: the TimeLog of a transition starts at the new sample.
HandleActivityTransition_WrongStart(S, new_activity, t) ==
    IF S.activity_start = NoTime
    THEN [session |-> StartNewActivity(S, new_activity, t), time_log |-> NoLog]
    ELSE LET duration == t - S.activity_start
         IN IF duration >= min_duration * Second
            THEN LET logged == [CreateTimeLog(S, t) EXCEPT
                                   !.start_time = new_activity.timestamp - 1]
                     transition ==
                         [from_activity |-> S.current_activity,
                          to_activity |-> new_activity,
                          timestamp |-> t,
                          duration |-> duration,
                          pattern |-> DetectActivityPattern(S.context, new_activity)]
                     recorded == [S EXCEPT !.context.transition_history =
                                               Append(@, transition)]
                 IN [session |-> StartNewActivity(recorded, new_activity, t),
                     time_log |-> logged]
            ELSE [session |-> StartNewActivity(S, new_activity, t),
                  time_log |-> NoLog]

\* ActivitySession._handle_activity_transition: the session after it and
\* the TimeLog it returns.
HandleActivityTransition(S, new_activity, t) ==
    IF S.activity_start = NoTime
    THEN [session |-> StartNewActivity(S, new_activity, t), time_log |-> NoLog]
    ELSE LET duration == t - S.activity_start
         IN IF duration >= min_duration * Second
            THEN LET logged == CreateTimeLog(S, t)
                     transition ==
                         [from_activity |-> S.current_activity,
                          to_activity |-> new_activity,
                          timestamp |-> t,
                          duration |-> duration,
                          pattern |-> DetectActivityPattern(S.context, new_activity)]
                     recorded == IF S.current_activity # NoActivity
                                 THEN [S EXCEPT !.context.transition_history =
                                                    Append(@, transition)]
                                 ELSE S
                 IN [session |-> StartNewActivity(recorded, new_activity, t),
                     time_log |-> logged]
            ELSE [session |-> StartNewActivity(S, new_activity, t),
                  time_log |-> NoLog]

\* Mutant: the current activity is kept when the idle period is logged.
CreateIdleLog_KeepActivity(S, end_time) ==
    [session |-> [S EXCEPT !.idle_start = NoTime],
     time_log |->
         [start_time |-> S.idle_start,
          end_time |-> end_time,
          category |-> "idle",
          description |->
              [kind |-> "idle",
               previous |-> IF S.current_activity # NoActivity
                            THEN S.current_activity.application
                            ELSE <<"N", "o", "n", "e">>],
          tags |-> <<"auto-tracked", "idle">>]]

\* ActivitySession._create_idle_log: the idle TimeLog; the idle timer and
\* the current activity are cleared.
CreateIdleLog(S, end_time) ==
    IF S.idle_start = NoTime THEN [session |-> S, time_log |-> NoLog]
    ELSE [session |-> [S EXCEPT !.idle_start = NoTime,
                                !.current_activity = NoActivity,
                                !.activity_start = NoTime],
          time_log |->
              [start_time |-> S.idle_start,
               end_time |-> end_time,
               category |-> "idle",
               description |->
                   [kind |-> "idle",
                    previous |-> IF S.current_activity # NoActivity
                                 THEN S.current_activity.application
                                 ELSE <<"N", "o", "n", "e">>],
               tags |-> <<"auto-tracked", "idle">>]]

\* category_weights of _get_productivity_score, times 10.
CategoryWeight(c) ==
    CASE c = "work" -> 10
      [] c = "study" -> 10
      [] c = "hobby" -> 6
      [] c = "health" -> 7
      [] c = "exercise" -> 7
      [] c = "social" -> 3
      [] c = "relax" -> 2
      [] c = "idle" -> 0
      [] c = "other" -> 4
      [] OTHER -> 4

\* pattern_multipliers of _get_productivity_score, times 10.
PatternMultiplier(p) ==
    CASE p = "focused" -> 12
      [] p = "multitasking" -> 9
      [] p = "distracted" -> 6
      [] p = "transitioning" -> 8
      [] p = "idle" -> 3
      [] OTHER -> 10

\* A productivity score is held as the integer score * ProductivityScale:
\* 600 (focus) * 10 (hour) * 10 (pattern) * 300 (idle penalty) / 10 (the
\* category weight times 100, held times 10).
ProductivityScale == 1800000

\* The time-of-day factor of _get_productivity_score, times 10.
HourFactor(hour) ==
    IF (9 <= hour /\ hour <= 11) \/ (14 <= hour /\ hour <= 16) THEN 12
    ELSE IF (0 <= hour /\ hour <= 5) \/ (22 <= hour /\ hour <= 23) THEN 8
    ELSE 10

\* _get_productivity_score before the final clamp.
RawProductivityScore(timestamp, ctx) ==
    LET current == ctx.last_activities[Len(ctx.last_activities)]
        category == IF current.category # None THEN current.category ELSE "other"
        idle == IF current.idle_time > 300 THEN 300 ELSE current.idle_time
    IN CategoryWeight(category)
         * (FocusScale \div 2 + ctx.focus_score)
         * HourFactor(HourOf(timestamp))
         * (IF ctx.activity_patterns # <<>>
            THEN PatternMultiplier(ctx.activity_patterns[Len(ctx.activity_patterns)])
            ELSE 10)
         * (IF current.idle_time > 0 THEN 300 - idle ELSE 300)

\* Mutant: the score is not clamped.
ProductivityScore_NoClamp(timestamp, ctx) ==
    IF ctx.last_activities = <<>> THEN 0
    ELSE RawProductivityScore(timestamp, ctx)

\* ActivitySession._get_productivity_score
ProductivityScore(timestamp, ctx) ==
    IF ctx.last_activities = <<>> THEN 0
    ELSE LET score == RawProductivityScore(timestamp, ctx)
             upper == 100 * ProductivityScale
         IN IF score > upper THEN upper ELSE IF score < 0 THEN 0 ELSE score

\* ActivitySession._update_context_metrics (its datetime.now() is the
\* reading t of update()).
UpdateContextMetrics(S, activity, t) ==
    LET durations == IF activity.category # None /\ S.activity_start # NoTime
                     THEN DictPut(S.context.category_durations, activity.category,
                                  DictGet(S.context.category_durations,
                                          activity.category)
                                    + (t - S.activity_start))
                     ELSE S.context.category_durations
        appended == Append(S.context.last_activities, activity)
        activities == IF Len(appended) > context_window THEN Tail(appended)
                      ELSE appended
        ctx1 == [S.context EXCEPT !.category_durations = durations,
                                  !.last_activities = activities]
        patterns1 == Append(ctx1.activity_patterns,
                            DetectActivityPattern(ctx1, activity))
        patterns == IF Len(patterns1) > max_context_transitions
                    THEN Tail(patterns1) ELSE patterns1
        ctx2 == [ctx1 EXCEPT !.activity_patterns = patterns,
                             !.focus_score = CalculateFocusScore(S.pattern_window)]
    IN [S EXCEPT !.context =
           [ctx2 EXCEPT !.productivity_score = ProductivityScore(t, ctx2)]]

\* deque(maxlen=max_context_transitions).append
WindowAppend(window, p) ==
    IF Len(window) >= max_context_transitions THEN Append(Tail(window), p)
    ELSE Append(window, p)

\* ActivitySession.update(activity) at clock reading t: the session after
\* it and the TimeLog returned (NoLog for None).
Update(S0, activity, t) ==
    LET idle == HandleIdleState(S0, activity, t)
        S1 == [S0 EXCEPT !.idle_start = idle.idle_start]
    IN IF idle.fires THEN CreateIdleLog(S1, t)
       ELSE LET S2 == [S1 EXCEPT !.pattern_window =
                          WindowAppend(@, DetectActivityPattern(S1.context, activity))]
            IN IF S2.current_activity = NoActivity
               THEN [session |-> StartNewActivity(S2, activity, t),
                     time_log |-> NoLog]
               ELSE IF ShouldTransitionActivity(S2, activity)
               THEN HandleActivityTransition(S2, activity, t)
               ELSE [session |-> UpdateContextMetrics(S2, activity, t),
                     time_log |-> NoLog]

(***************************************************************************)
(* The engine loop on the session and the storage                          *)
(***************************************************************************)
\* SQLiteActivityStorage.add_activity with _store_activity_context: the
\* activities row and the activity_context row written for it.
StoredRow(log, ctx) ==
    [time_log |-> log,
     focus_score |-> ctx.focus_score,
     activity_pattern |-> IF ctx.activity_patterns # <<>>
                          THEN ctx.activity_patterns[Len(ctx.activity_patterns)]
                          ELSE "transitioning",
     context_activities |-> ctx.last_activities,
     category_durations |-> ctx.category_durations,
     transition_history |->
         [i \in 1..Len(ctx.transition_history) |->
            LET tr == ctx.transition_history[i]
            IN [from_activity |-> [application |-> tr.from_activity.application,
                                   window_title |-> tr.from_activity.window_title,
                                   category |-> tr.from_activity.category],
                to_activity |-> [application |-> tr.to_activity.application,
                                 window_title |-> tr.to_activity.window_title,
                                 category |-> tr.to_activity.category],
                timestamp |-> tr.timestamp,
                duration |-> tr.duration,
                pattern |-> tr.pattern]],
     productivity_score |-> ctx.productivity_score]

\* Engine.log_activity: ValueError for end <= start, else
\* storage.add_activity, which raises when storage_ok is FALSE.  The rows
\* of the storage afterwards.
LogActivity(rows, log, ctx, storage_ok) ==
    IF log.end_time <= log.start_time THEN rows
    ELSE IF storage_ok THEN Append(rows, StoredRow(log, ctx))
    ELSE rows

\* Mutant: the loop hands every TimeLog to log_activity.
PersistTimeLog_NoDurationCheck(rows, log, ctx, storage_ok) ==
    IF log = NoLog THEN rows
    ELSE LogActivity(rows, log, ctx, storage_ok)

\* Mutant: the loop hands a valid TimeLog to log_activity a second time.
PersistTimeLog_Twice(rows, log, ctx, storage_ok) ==
    IF log = NoLog THEN rows
    ELSE IF log.end_time <= log.start_time THEN rows
    ELSE IF log.end_time - log.start_time < 1 * Second THEN rows
    ELSE LogActivity(LogActivity(rows, log, ctx, storage_ok), log, ctx,
                     storage_ok)

\* What the loop does with the value update() returned (lines 149-161).
PersistTimeLog(rows, log, ctx, storage_ok) ==
    IF log = NoLog THEN rows
    ELSE IF log.end_time <= log.start_time THEN rows
    ELSE IF log.end_time - log.start_time < 1 * Second THEN rows
    ELSE LogActivity(rows, log, ctx, storage_ok)

\* Samples the loop takes in one behaviour.
MaxSamples == 3

\* Samples the loop takes in one behaviour of quick window switching.
MaxSwitches == 6

\* The windows the tracker reports: <<application, window title>>.
Windows == {<<AppIde, TitlePy>>, <<AppWeb, TitleNone>>, <<AppPw, TitleKey>>}

\* The idle seconds the tracker reports.
IdleTimes == {0, 30, 300}

\* Seconds from one clock reading of the loop to the next: the sampling
\* interval, a slow iteration, a suspended machine.
Steps == {5 * Second, 30 * Second, 905 * Second}

\* The clock when the engine is constructed: a Monday 08:50 and 21:50.
StartTimes == {31800 * Second, 78600 * Second}

SessionInit ==
    /\ now \in StartTimes
    /\ nsamples = 0
    /\ polled = NoActivity
    /\ current_activity = NoActivity
    /\ activity_start = NoTime
    /\ idle_start = NoTime
    /\ pattern_window = <<>>
    /\ context = EmptyContext
    /\ time_log = NoLog
    /\ storage = <<>>

\* One iteration of the while loop of Engine._track_activity with no
\* exception before the logging: poll the tracker, classify, build the
\* ActivityData, session.update, validate and persist the TimeLog.  The
\* storage is called, and may fail, only when update returned a TimeLog.
LoopIteration(window, idle_time, step) ==
    \E t \in {now + step} :
    \E classified \in {ClassifyActivity(classifier_rules, window[1],
                                         window[2], t, idle_time)} :
    \E sample \in {[timestamp |-> t,
                     application |-> window[1],
                     window_title |-> window[2],
                     idle_time |-> idle_time,
                     category |-> classified.category]} :
    \E result \in {Update(Session, sample, t)} :
    \E storage_ok \in IF result.time_log = NoLog THEN {TRUE} ELSE BOOLEAN :
       /\ now' = t
       /\ nsamples' = nsamples + 1
       /\ polled' = sample
       /\ current_activity' = result.session.current_activity
       /\ activity_start' = result.session.activity_start
       /\ idle_start' = result.session.idle_start
       /\ pattern_window' = result.session.pattern_window
       /\ context' = result.session.context
       /\ time_log' = result.time_log
       /\ storage' = PersistTimeLog(storage, result.time_log,
                                    result.session.context, storage_ok)

SessionNext ==
    /\ nsamples < MaxSamples
    /\ \E window \in Windows, idle_time \in IdleTimes, step \in Steps :
          LoopIteration(window, idle_time, step)
    /\ UNCHANGED <<engineVars, apiVars, classifierVars>>

\* The loop while the user goes from window to window, never idle: a
\* sample every sampling interval or every 30 s.
SwitchingNext ==
    /\ nsamples < MaxSwitches
    /\ \E window \in {<<AppIde, TitlePy>>, <<AppWeb, TitleNone>>},
          step \in {5 * Second, 30 * Second} :
          LoopIteration(window, 0, step)
    /\ UNCHANGED <<engineVars, apiVars, classifierVars>>

\* Samples the loop takes in one behaviour of going round the windows.
MaxRotations == 5

AppMail == <<"m">>

\* The windows the user goes round.
RotatingWindows ==
    {<<AppIde, TitlePy>>, <<AppWeb, TitleNone>>, <<AppPw, TitleKey>>,
     <<AppMail, TitleNone>>}

\* The loop while the user goes round the windows, never idle: every sample
\* finds another application than the one before, 30 s or 35 s later, 30 s
\* being the shortest stay that _handle_activity_transition records as a
\* transition.
RotatingNext ==
    /\ nsamples < MaxRotations
    /\ \E window \in RotatingWindows, step \in {30 * Second, 35 * Second} :
          /\ window[1] # polled.application
          /\ LoopIteration(window, 0, step)
    /\ UNCHANGED <<engineVars, apiVars, classifierVars>>

(***************************************************************************)
(* SQLiteActivityStorage (src/storage/sqlite_storage.py): the queries      *)
(***************************************************************************)
\* datetime(day, hour, minute, second), the days counted from the Monday
\* of the clock.
Clock(day, hour, minute, second) ==
    (((day * 24 + hour) * 60 + minute) * 60 + second) * Second

\* datetime.date(), as the number of the day
DateOf(t) == t \div (86400 * Second)

\* datetime.combine(date, datetime.min.time())
Midnight(day) == day * 86400 * Second

\* datetime.minute
MinuteOfHour(t) == MinuteOf(t) % 60

Later(a, b) == IF a >= b THEN a ELSE b

Earlier(a, b) == IF a <= b THEN a ELSE b

\* get_activities: the TimeLogs of the rows with start_time >= start_date
\* and end_time <= end_date, of the category if one is given (the ORDER BY
\* start_time does not matter to the sums made of them).
RECURSIVE SelectRows(_, _, _, _)
SelectRows(rows, start_date, end_date, category) ==
    IF rows = <<>> THEN <<>>
    ELSE LET log == Head(rows).time_log
             rest == SelectRows(Tail(rows), start_date, end_date, category)
         IN IF /\ log.start_time >= start_date
               /\ log.end_time <= end_date
               /\ (category = None \/ log.category = category)
            THEN <<Head(rows)>> \o rest
            ELSE rest

\* What one activity adds to hourly_durations[hour] of current_date in
\* get_heatmap (lines 264-295), an hour being held as its 3600 * Second
\* ticks.
HeatmapShare(log, current_date, hour) ==
    IF DateOf(log.end_time) < current_date \/ DateOf(log.start_time) > current_date
    THEN 0
    ELSE LET day_start == Later(log.start_time, Midnight(current_date))
             day_end == Earlier(log.end_time, Midnight(current_date + 1))
             start_hour == HourOf(day_start)
             start_minute == MinuteOfHour(day_start)
             end_hour == HourOf(day_end)
             end_minute == IF DateOf(day_end) = current_date
                           THEN MinuteOfHour(day_end) ELSE 0
         IN IF start_hour = end_hour
            THEN (IF hour = start_hour THEN day_end - day_start ELSE 0)
            ELSE (IF hour = start_hour /\ 60 - start_minute > 0
                  THEN (60 - start_minute) * 60 * Second ELSE 0)
                 + (IF start_hour + 1 <= hour /\ hour < end_hour
                    THEN 3600 * Second ELSE 0)
                 + (IF end_hour < 24 /\ hour = end_hour
                    THEN end_minute * 60 * Second ELSE 0)

\* SQLiteActivityStorage.get_heatmap: for each date from start_date.date()
\* to end_date.date() the 24 hourly durations.
GetHeatmapResult(rows, start_date, end_date, category) ==
    LET activities == SelectRows(rows, start_date, end_date, category)
    IN [current_date \in DateOf(start_date)..DateOf(end_date) |->
          [hour \in 0..23 |->
             SumSeq([i \in 1..Len(activities) |->
                       HeatmapShare(activities[i].time_log, current_date, hour)])]]

\* The rows of daily_hours in get_activity_streaks: date(start_time) of the
\* activities of the category and, for a date, the sum of their durations
\* (hours held as ticks).
ActivityDates(rows, category) ==
    {DateOf(rows[i].time_log.start_time) :
        i \in {j \in 1..Len(rows) : rows[j].time_log.category = category}}

DailyHours(rows, category, activity_date) ==
    SumSeq([i \in 1..Len(rows) |->
              IF /\ rows[i].time_log.category = category
                 /\ DateOf(rows[i].time_log.start_time) = activity_date
              THEN rows[i].time_log.end_time - rows[i].time_log.start_time
              ELSE 0])

\* ORDER BY activity_date: a set of dates as the ascending sequence.
RECURSIVE Ascending(_)
Ascending(dates) ==
    IF dates = {} THEN <<>>
    ELSE LET first == CHOOSE d \in dates : \A e \in dates : d <= e
         IN <<first>> \o Ascending(dates \ {first})

\* The loop of get_activity_streaks over the fetched rows, from row k on;
\* day_diff is NULL for the first row.
RECURSIVE GroupStreaks(_, _, _, _)
GroupStreaks(days, k, streaks, current_streak) ==
    IF k > Len(days)
    THEN (IF current_streak # <<>> THEN Append(streaks, current_streak)
          ELSE streaks)
    ELSE IF k = 1 \/ days[k].date - days[k - 1].date = 0
            \/ days[k].date - days[k - 1].date = 1
         THEN GroupStreaks(days, k + 1, streaks, Append(current_streak, days[k]))
         ELSE GroupStreaks(days, k + 1,
                           IF current_streak # <<>>
                           THEN Append(streaks, current_streak) ELSE streaks,
                           <<days[k]>>)

\* julianday() is a double: of two instants an exact number of hours apart
\* the difference times 24 comes out a few 1e-9 under that number, exact,
\* or a few 1e-9 over it, by the date and the hour.  The sign of the error
\* of a day's SUM, far under a tick:
JulianRounding == {-1, 0, 1}

\* HAVING hours >= ?, the hours being the exact ticks with that error
Reaches(hours, rounding, minimum_daily_hours) ==
    \/ hours > minimum_daily_hours
    \/ hours = minimum_daily_hours /\ rounding >= 0

\* SQLiteActivityStorage.get_activity_streaks(category, minimum_daily_hours),
\* the minimum given in ticks, rounding[d] the sign of the error of the
\* sum of date d.
GetActivityStreaksResult(rows, category, minimum_daily_hours, rounding) ==
    LET qualifying == {d \in ActivityDates(rows, category) :
                          Reaches(DailyHours(rows, category, d), rounding[d],
                                  minimum_daily_hours)}
        dates == Ascending(qualifying)
        days == [i \in 1..Len(dates) |->
                   [date |-> dates[i],
                    hours |-> DailyHours(rows, category, dates[i])]]
    IN GroupStreaks(days, 1, <<>>, <<>>)

\* The ActivityContext get_activity_contexts builds from one row of
\* activity_context (lines 495-545).
RetrievedContext(row) ==
    [last_activities |-> row.context_activities,
     category_durations |-> row.category_durations,
     activity_patterns |-> <<row.activity_pattern>>,
     transition_history |->
         [i \in 1..Len(row.transition_history) |->
            LET tr == row.transition_history[i]
            IN [from_activity |-> [timestamp |-> tr.timestamp,
                                   application |-> tr.from_activity.application,
                                   window_title |-> tr.from_activity.window_title,
                                   idle_time |-> 0,
                                   category |-> tr.from_activity.category],
                to_activity |-> [timestamp |-> tr.timestamp,
                                 application |-> tr.to_activity.application,
                                 window_title |-> tr.to_activity.window_title,
                                 idle_time |-> 0,
                                 category |-> tr.to_activity.category],
                timestamp |-> tr.timestamp,
                duration |-> tr.duration,
                pattern |-> tr.pattern]],
     focus_score |-> row.focus_score,
     productivity_score |-> row.productivity_score]

\* SQLiteActivityStorage.get_activity_contexts: with a category a second
\* statement, " AND category = ?", is executed on its own and sqlite3
\* raises OperationalError for it; without one the contexts of the rows in
\* the range are returned.
GetActivityContextsResult(rows, start_date, end_date, category) ==
    IF category # None
    THEN [raised |-> "OperationalError", contexts |-> <<>>]
    ELSE LET selected == SelectRows(rows, start_date, end_date, None)
         IN [raised |-> None,
             contexts |-> [i \in 1..Len(selected) |->
                             RetrievedContext(selected[i])]]

\* No call of the API has been made.
\* The NULL of SQL, which ORDER BY places below every number.
Null == -1

\* The groups of hour_activity in get_metrics: the hours of day at which
\* the selected rows start (GROUP BY strftime('%H', start_time)).
StartHours(rows) == {HourOf(rows[k].time_log.start_time) : k \in 1..Len(rows)}

\* duration_seconds of one group (lines 199-203).  SQLite has no modifier
\* 'start of hour': datetime(start_time, '+1 hour', 'start of hour') is
\* NULL, and so are MIN(end_time, NULL), its julianday, the difference, its
\* ROUND and the SUM over the rows of the group.
HourDuration(rows, hour) == Null

\* ORDER BY duration_seconds DESC over the groups, which GROUP BY hands
\* over by ascending hour and the sorter keeps in that order when equal.
RECURSIVE OrderByDuration(_, _)
OrderByDuration(rows, hours) ==
    IF hours = {} THEN <<>>
    ELSE LET first ==
                 CHOOSE h \in hours :
                    \A g \in hours \ {h} :
                       \/ HourDuration(rows, h) > HourDuration(rows, g)
                       \/ /\ HourDuration(rows, h) = HourDuration(rows, g)
                          /\ h < g
         IN <<first>> \o OrderByDuration(rows, hours \ {first})

\* peak_hours of get_metrics (lines 196-215): LIMIT 3 of the ordered groups
PeakHours(rows, start_date, end_date, category) ==
    LET selected == SelectRows(rows, start_date, end_date, category)
        ordered == OrderByDuration(selected, StartHours(selected))
    IN SubSeq(ordered, 1, Earlier(3, Len(ordered)))

NoCall == [op |-> "none", arg |-> NoLog, outcome |-> "none"]

ApiInit == api = NoCall

\* TimeLogs handed to the engine in one behaviour.
MaxLogs == 3

\* The last tick of the TimeLogs handed to the engine.
MaxTick == 3

\* TimeLogs as a session or a caller can build them: any start and end,
\* among them an end before the start, an empty interval, half a second,
\* a second and more.
TimeLogs ==
    {[start_time |-> a, end_time |-> b, category |-> "work",
      description |-> [kind |-> "given"], tags |-> <<>>] :
        a \in 0..MaxTick, b \in 0..MaxTick}

\* Lines 147-163 of the loop for a session.update that returned log: the
\* context is read, the TimeLog validated and persisted.
LoopPersist(log, storage_ok) ==
    /\ nsamples' = nsamples + 1
    /\ time_log' = log
    /\ storage' = PersistTimeLog(storage, log, context, storage_ok)
    /\ UNCHANGED <<now, polled, current_activity, activity_start, idle_start,
                   pattern_window, context>>
    /\ UNCHANGED <<engineVars, apiVars, classifierVars>>

\* Engine.log_activity(time_log, context) called from outside the loop.
LogActivityCall(log, storage_ok) ==
    /\ api' = [op |-> "log_activity", arg |-> log,
               outcome |-> IF log.end_time <= log.start_time THEN "ValueError"
                           ELSE IF storage_ok THEN "ok" ELSE "StorageError"]
    /\ storage' = LogActivity(storage, log, context, storage_ok)
    /\ UNCHANGED <<now, nsamples, polled, current_activity, activity_start,
                   idle_start, pattern_window, context, time_log>>
    /\ UNCHANGED <<engineVars, classifierVars>>

\* TimeLogs reach the storage from the loop and from callers of
\* log_activity.
LoggingNext ==
    /\ nsamples + Len(storage) < MaxLogs
    /\ \E storage_ok \in BOOLEAN :
          \/ \E log \in TimeLogs \cup {NoLog} : LoopPersist(log, storage_ok)
          \/ \E log \in TimeLogs : LogActivityCall(log, storage_ok)

\* No classify_activity call has been made.
NoQuery == [app_name |-> <<>>, window_title |-> <<>>, timestamp |-> NoTime,
            idle_time |-> 0]

NoVerdict == [category |-> None, confidence |-> -1]

ClassifierInit ==
    /\ classifier_rules = LoadedRules
    /\ rules_file = classifier_rules
    /\ mutations = 0
    /\ query = NoQuery
    /\ verdict = NoVerdict

\* A rule file with two rule sets, study before work in the file: study,
\* priority 1, has a pattern for another application and another title,
\* at any time; work, priority 2, has the pattern for the editor.  Titles
\* with "key" are excluded.
StudyFirstRules ==
    [rules |-> << [category |-> "study", priority |-> 1,
                   patterns |-> << [id |-> "p1",
                                    apps |-> << <<"x">> >>,
                                    titles |-> << <<"q">> >>,
                                    time_ranges |-> << >>,
                                    days |-> << >>] >>],
                  [category |-> "work", priority |-> 2,
                   patterns |-> << [id |-> "p2",
                                    apps |-> << AppIde >>,
                                    titles |-> << <<"*", ".", "p", "y">> >>,
                                    time_ranges |-> << >>,
                                    days |-> << >>] >>] >>,
     default |-> [category |-> "other", priority |-> 100],
     metadata |-> [last_updated |-> 0],
     privacy |-> [excluded_apps |-> << >>,
                  excluded_titles |-> << <<"*", "K", "e", "y", "*">> >>]]

\* The same two rule sets, work before study in the file.
WorkFirstRules ==
    [StudyFirstRules EXCEPT !.rules = << StudyFirstRules.rules[2],
                                         StudyFirstRules.rules[1] >>]

\* The same two rule sets in the order of StudyFirstRules, both of
\* priority 1.
EqualPriorityRules ==
    [StudyFirstRules EXCEPT !.rules[2].priority = 1]

\* The rule files the classifier is loaded with.
RuleFiles == {LoadedRules, StudyFirstRules, WorkFirstRules, EqualPriorityRules}

AppPwUpper == <<"P", "W">>
TitleKeyUpper == <<"m", "y", " ", "K", "E", "Y">>

\* The arguments of classify_activity: applications, titles, timestamps
\* (Monday 08:50, Monday 21:50, Saturday 10:00) and idle seconds.
QueryApps == {AppIde, AppWeb, AppPw, AppPwUpper}
QueryTitles == {TitlePy, TitleNone, TitleKey, TitleKeyUpper}
QueryTimes == {31800 * Second, 78600 * Second, 468000 * Second}
QueryIdleTimes == {0, 30, 299, 300, 301, 600}

ClassifyInit ==
    /\ EngineInit /\ SessionInit /\ ApiInit
    /\ classifier_rules \in RuleFiles
    /\ rules_file = classifier_rules
    /\ mutations = 0
    /\ query = NoQuery
    /\ verdict = NoVerdict

\* ActivityClassifier.classify_activity(app_name, window_title, timestamp,
\* idle_time) called on the loaded rules, once in a behaviour: the call
\* changes nothing it reads.
Classify(app_name, window_title, timestamp, idle_time) ==
    /\ query = NoQuery
    /\ query' = [app_name |-> app_name, window_title |-> window_title,
                 timestamp |-> timestamp, idle_time |-> idle_time]
    /\ verdict' = ClassifyActivity(classifier_rules, app_name, window_title,
                                   timestamp, idle_time)
    /\ UNCHANGED <<classifier_rules, rules_file, mutations, engineVars,
                   sessionVars, apiVars>>

ClassifyNext ==
    \E app_name \in QueryApps, window_title \in QueryTitles,
       timestamp \in QueryTimes, idle_time \in QueryIdleTimes :
       Classify(app_name, window_title, timestamp, idle_time)

(***************************************************************************)
(* The analytics queries on stored activities                              *)
(***************************************************************************)
\* Rows in the activities table in one behaviour.
MaxRows == 3

\* A TimeLog handed to add_activity
StoredLog(start_time, end_time, category) ==
    [start_time |-> start_time, end_time |-> end_time, category |-> category,
     description |-> [kind |-> "given"], tags |-> <<>>]

\* The activities stored: inside one hour, over several hours with seconds
\* in the start, over midnight, exactly one hour, half an hour, another
\* category, and a day after a gap.
AnalyticsLogs ==
    {StoredLog(Clock(0, 9, 10, 0), Clock(0, 9, 40, 0), "work"),
     StoredLog(Clock(0, 9, 30, 30), Clock(0, 11, 15, 0), "work"),
     StoredLog(Clock(0, 22, 0, 0), Clock(1, 1, 0, 0), "work"),
     StoredLog(Clock(1, 10, 0, 0), Clock(1, 11, 0, 0), "work"),
     StoredLog(Clock(2, 10, 0, 0), Clock(2, 10, 30, 0), "work"),
     StoredLog(Clock(2, 10, 0, 0), Clock(2, 12, 0, 0), "study"),
     StoredLog(Clock(3, 10, 0, 0), Clock(3, 13, 0, 0), "work")}

\* The ranges asked for: the whole week, and Monday 09:00 to Tuesday noon.
QueryRanges ==
    {[start_date |-> Clock(0, 0, 0, 0), end_date |-> Clock(4, 0, 0, 0)],
     [start_date |-> Clock(0, 9, 0, 0), end_date |-> Clock(1, 12, 0, 0)]}

\* minimum_daily_hours asked for: 1.0 (the default) and 2.0
QueryMinimums == {3600 * Second, 7200 * Second}

\* storage.add_activity(time_log, context)
AddActivity(log, ctx) ==
    /\ api.op = "none"
    /\ Len(storage) < MaxRows
    /\ storage' = Append(storage, StoredRow(log, ctx))
    /\ UNCHANGED <<now, nsamples, polled, current_activity, activity_start,
                   idle_start, pattern_window, context, time_log>>
    /\ UNCHANGED <<engineVars, apiVars, classifierVars>>

\* The rows of the two tables.  A row of the model is the activities row
\* and the activity_context row of one id, the id being its position; the
\* activities row of a deleted activity is NoLog.
ActivityIds(rows) == {id \in 1..Len(rows) : rows[id].time_log # NoLog}

\* No statement deletes from activity_context: add_activity writes the
\* context row of the id and it stays.
ContextIds(rows) == 1..Len(rows)

\* storage.update_activity(activity_id, time_log): UPDATE activities ...
\* WHERE id = ?, which changes nothing when no row has the id.
UpdateActivity(activity_id, log) ==
    /\ api.op = "none"
    /\ storage' = IF activity_id \in ActivityIds(storage)
                  THEN [storage EXCEPT ![activity_id].time_log = log]
                  ELSE storage
    /\ UNCHANGED <<now, nsamples, polled, current_activity, activity_start,
                   idle_start, pattern_window, context, time_log>>
    /\ UNCHANGED <<engineVars, apiVars, classifierVars>>

\* storage.delete_activity(activity_id): DELETE FROM activities WHERE
\* id = ?.  The connection never turns foreign keys on and the key has no
\* ON DELETE clause: the activity_context row is not touched.
DeleteActivity(activity_id) ==
    /\ api.op = "none"
    /\ storage' = IF activity_id \in ActivityIds(storage)
                  THEN [storage EXCEPT ![activity_id].time_log = NoLog]
                  ELSE storage
    /\ UNCHANGED <<now, nsamples, polled, current_activity, activity_start,
                   idle_start, pattern_window, context, time_log>>
    /\ UNCHANGED <<engineVars, apiVars, classifierVars>>

\* Activities are added, updated and deleted by id.
TablesNext ==
    \/ \E log \in AnalyticsLogs : AddActivity(log, EmptyContext)
    \/ \E activity_id \in 1..MaxRows, log \in AnalyticsLogs :
          UpdateActivity(activity_id, log)
    \/ \E activity_id \in 1..MaxRows : DeleteActivity(activity_id)

\* Engine.get_activity_heatmap(start_date, end_date, category), which is
\* storage.get_heatmap: the last call of a behaviour.
GetHeatmap(start_date, end_date, category) ==
    /\ api.op = "none"
    /\ api' = [op |-> "get_heatmap",
               arg |-> [start_date |-> start_date, end_date |-> end_date,
                        category |-> category],
               outcome |-> GetHeatmapResult(storage, start_date, end_date,
                                            category)]
    /\ UNCHANGED <<engineVars, sessionVars, classifierVars>>

\* storage.get_activity_streaks(category, minimum_daily_hours), the last
\* call of a behaviour.
GetActivityStreaks(category, minimum_daily_hours) ==
    /\ api.op = "none"
    /\ \E rounding \in [ActivityDates(storage, category) -> JulianRounding] :
          api' = [op |-> "get_activity_streaks",
                  arg |-> [category |-> category,
                           minimum_daily_hours |-> minimum_daily_hours],
                  outcome |-> GetActivityStreaksResult(storage, category,
                                                       minimum_daily_hours,
                                                       rounding)]
    /\ UNCHANGED <<engineVars, sessionVars, classifierVars>>

\* Engine.get_activity_metrics(start_date, end_date, category), which is
\* storage.get_metrics: the last call of a behaviour.
GetMetrics(start_date, end_date, category) ==
    /\ api.op = "none"
    /\ api' = [op |-> "get_metrics",
               arg |-> [start_date |-> start_date, end_date |-> end_date,
                        category |-> category],
               outcome |-> [peak_hours |-> PeakHours(storage, start_date,
                                                     end_date, category)]]
    /\ UNCHANGED <<engineVars, sessionVars, classifierVars>>

\* Engine.get_activity_contexts(start_date, end_date, category), which is
\* storage.get_activity_contexts: the last call of a behaviour.
GetActivityContexts(start_date, end_date, category) ==
    /\ api.op = "none"
    /\ api' = [op |-> "get_activity_contexts",
               arg |-> [start_date |-> start_date, end_date |-> end_date,
                        category |-> category],
               outcome |-> GetActivityContextsResult(storage, start_date,
                                                     end_date, category)]
    /\ UNCHANGED <<engineVars, sessionVars, classifierVars>>

\* timedelta(minutes=5) of get_productivity_scores, in seconds
score_interval == 300

\* The contexts with a sample in [current_time, current_time + interval)
IntervalContexts(contexts, current_time) ==
    SelectSeq(contexts,
              LAMBDA c : \E i \in 1..Len(c.last_activities) :
                 /\ c.last_activities[i].timestamp >= current_time
                 /\ c.last_activities[i].timestamp
                       < current_time + score_interval * Second)

\* The while loop of get_productivity_scores from current_time on.  A
\* score is the fraction num / den of productivity scores (themselves in
\* units of 1 / ProductivityScale).
RECURSIVE ScoreLoop(_, _, _, _)
ScoreLoop(contexts, current_time, end_time, scores) ==
    IF current_time > end_time THEN scores
    ELSE LET interval_contexts == IntervalContexts(contexts, current_time)
             point ==
                 IF interval_contexts # <<>>
                 THEN [timestamp |-> current_time,
                       num |-> SumSeq([i \in 1..Len(interval_contexts) |->
                                  interval_contexts[i].productivity_score]),
                       den |-> Len(interval_contexts)]
                 ELSE IF scores # <<>>
                 THEN [timestamp |-> current_time,
                       num |-> scores[Len(scores)].num,
                       den |-> scores[Len(scores)].den]
                 ELSE [timestamp |-> current_time, num |-> 0, den |-> 1]
         IN ScoreLoop(contexts, current_time + score_interval * Second,
                      end_time, Append(scores, point))

\* Engine.get_productivity_scores(start_time, end_time)
GetProductivityScoresResult(rows, start_time, end_time) ==
    LET contexts == GetActivityContextsResult(rows, start_time, end_time,
                                              None).contexts
    IN IF contexts = <<>>
       THEN << [timestamp |-> start_time, num |-> 0, den |-> 1],
               [timestamp |-> end_time, num |-> 0, den |-> 1] >>
       ELSE ScoreLoop(contexts, start_time, end_time, <<>>)

\* The ranges the scores are asked for: from five minutes before a start
\* of the loop, for no time, seven minutes and twenty minutes.
ScoreStarts == {Clock(0, 8, 45, 0), Clock(0, 21, 45, 0)}

ScoreSpans == {0, 420 * Second, 1200 * Second}

\* Engine.get_productivity_scores(start_time, end_time), the last call of
\* a behaviour.
GetProductivityScores(start_time, end_time) ==
    /\ api.op = "none"
    /\ api' = [op |-> "get_productivity_scores",
               arg |-> [start_time |-> start_time, end_time |-> end_time],
               outcome |-> GetProductivityScoresResult(storage, start_time,
                                                       end_time)]
    /\ UNCHANGED <<engineVars, sessionVars, classifierVars>>

\* The sampling loop persists TimeLogs with the context of the session,
\* then the contexts are asked for.
ContextsNext ==
    \/ /\ api.op = "none"
       /\ nsamples < MaxSamples
       /\ \E window \in Windows, step \in Steps :
             LoopIteration(window, 0, step)
       /\ UNCHANGED <<engineVars, apiVars, classifierVars>>
    \/ \E range \in QueryRanges, category \in {None, "work", "other"} :
          GetActivityContexts(range.start_date, range.end_date, category)
    \/ \E start_time \in ScoreStarts, span \in ScoreSpans :
          GetProductivityScores(start_time, start_time + span)

AnalyticsNext ==
    \/ \E log \in AnalyticsLogs : AddActivity(log, EmptyContext)
    \/ \E range \in QueryRanges, category \in {None, "work"} :
          GetHeatmap(range.start_date, range.end_date, category)
    \/ \E category \in {"work", "study"},
          minimum_daily_hours \in QueryMinimums :
          GetActivityStreaks(category, minimum_daily_hours)
    \/ \E range \in QueryRanges, category \in {None, "work"} :
          GetMetrics(range.start_date, range.end_date, category)

(***************************************************************************)
(* The mutations of the rules (classifier.py 175-284)                      *)
(***************************************************************************)
\* An Optional argument: not given (None), or given with a value.
Absent == <<>>

Given(value) == <<value>>

\* list.index(value): the first index, 0 for the ValueError of a value
\* that is not in the list
IndexOf(xs, value) ==
    IF \E i \in 1..Len(xs) : xs[i] = value
    THEN CHOOSE i \in 1..Len(xs) :
            xs[i] = value /\ \A j \in 1..(i - 1) : xs[j] # value
    ELSE 0

\* list.pop(i), del d[key]
RemoveAt(xs, i) == SubSeq(xs, 1, i - 1) \o SubSeq(xs, i + 1, Len(xs))

\* The place of self.rules.rules[category], 0 for category not in
\* self.rules.rules
RuleOf(rules, category) ==
    IF \E k \in 1..Len(rules.rules) : rules.rules[k].category = category
    THEN CHOOSE k \in 1..Len(rules.rules) : rules.rules[k].category = category
    ELSE 0

\* The place of the first pattern of a rule set with the id, 0 for none
PatternOf(rule_set, pattern_id) ==
    IF \E j \in 1..Len(rule_set.patterns) : rule_set.patterns[j].id = pattern_id
    THEN CHOOSE j \in 1..Len(rule_set.patterns) :
            /\ rule_set.patterns[j].id = pattern_id
            /\ \A i \in 1..(j - 1) : rule_set.patterns[i].id # pattern_id
    ELSE 0

\* What a mutation leaves: the exception raised, self.rules, and whether
\* _save_rules was called.
Raised(rules) == [raised |-> "ValueError", rules |-> rules, saved |-> FALSE]

Saved(rules) == [raised |-> None, rules |-> rules, saved |-> TRUE]

\* ActivityClassifier.update_category_priority
UpdateCategoryPriority(rules, category, priority) ==
    LET k == RuleOf(rules, category)
    IN IF k = 0 THEN Raised(rules)
       ELSE Saved([rules EXCEPT !.rules[k].priority = priority])

\* ActivityClassifier.remove_pattern
RemovePattern(rules, category, pattern_id) ==
    LET k == RuleOf(rules, category)
    IN IF k = 0 THEN Raised(rules)
       ELSE LET j == PatternOf(rules.rules[k], pattern_id)
            IN IF j = 0 THEN Raised(rules)
               ELSE Saved([rules EXCEPT !.rules[k].patterns = RemoveAt(@, j)])

\* ActivityClassifier.remove_category
RemoveCategory(rules, category) ==
    LET k == RuleOf(rules, category)
    IN IF k = 0 THEN Raised(rules)
       ELSE Saved([rules EXCEPT !.rules = RemoveAt(@, k)])

\* ActivityClassifier.add_rule: a rule set is made for a new category with
\* priority or 50, which CategoryRule validates (1..100, ValidationError
\* otherwise); the pattern is appended.
AddRule(rules, category, pattern, priority) ==
    LET k == RuleOf(rules, category)
        given == IF priority # Absent /\ priority[1] # 0 THEN priority[1] ELSE 50
    IN IF k # 0
       THEN Saved([rules EXCEPT !.rules[k].patterns = Append(@, pattern)])
       ELSE IF given < 1 \/ given > 100
       THEN [raised |-> "ValidationError", rules |-> rules, saved |-> FALSE]
       ELSE Saved([rules EXCEPT !.rules =
                      Append(@, [category |-> category, priority |-> given,
                                 patterns |-> <<pattern>>])])

\* Mutant: add_privacy_rule without the call of _save_rules.
AddPrivacyRule_NoSave(rules, excluded_app, excluded_title) ==
    [raised |-> None,
     rules |-> [rules EXCEPT !.privacy.excluded_apps =
                   IF excluded_app # Absent THEN Append(@, excluded_app[1]) ELSE @],
     saved |-> FALSE]

\* ActivityClassifier.add_privacy_rule
AddPrivacyRule(rules, excluded_app, excluded_title) ==
    LET rules1 == IF excluded_app # Absent /\ excluded_app[1] # <<>>
                  THEN [rules EXCEPT !.privacy.excluded_apps =
                                         Append(@, excluded_app[1])]
                  ELSE rules
    IN Saved(IF excluded_title # Absent /\ excluded_title[1] # <<>>
             THEN [rules1 EXCEPT !.privacy.excluded_titles =
                                     Append(@, excluded_title[1])]
             ELSE rules1)

\* ActivityClassifier.modify_pattern
ModifyPattern(rules, category, pattern_id, apps, titles, time_ranges, days) ==
    LET k == RuleOf(rules, category)
    IN IF k = 0 THEN Raised(rules)
       ELSE LET j == PatternOf(rules.rules[k], pattern_id)
            IN IF j = 0 THEN Raised(rules)
               ELSE Saved([rules EXCEPT !.rules[k].patterns[j] =
                      [id |-> @.id,
                       apps |-> IF apps # Absent THEN apps[1] ELSE @.apps,
                       titles |-> IF titles # Absent THEN titles[1] ELSE @.titles,
                       time_ranges |-> IF time_ranges # Absent
                                       THEN time_ranges[1] ELSE @.time_ranges,
                       days |-> IF days # Absent THEN days[1] ELSE @.days]])

\* ActivityClassifier.modify_privacy_rule: the app pair is applied to
\* self.rules before the title pair is looked up.
ModifyPrivacyRule(rules, old_app, new_app, old_title, new_title) ==
    LET with_app == old_app # Absent /\ new_app # Absent
        app_idx == IF with_app
                   THEN IndexOf(rules.privacy.excluded_apps, old_app[1]) ELSE 0
        rules1 == IF with_app /\ app_idx # 0
                  THEN [rules EXCEPT !.privacy.excluded_apps[app_idx] = new_app[1]]
                  ELSE rules
        with_title == old_title # Absent /\ new_title # Absent
        title_idx == IF with_title
                     THEN IndexOf(rules1.privacy.excluded_titles, old_title[1])
                     ELSE 0
    IN IF with_app /\ app_idx = 0 THEN Raised(rules)
       ELSE IF with_title /\ title_idx = 0 THEN Raised(rules1)
       ELSE IF with_title
       THEN Saved([rules1 EXCEPT !.privacy.excluded_titles[title_idx] = new_title[1]])
       ELSE Saved(rules1)

\* The categories, pattern ids and privacy patterns the calls name: in
\* the rules or not.
MutatedCategories == {"work", "study", "hobby"}

MutatedPatterns == {"p1", "p2", "p9"}

OldApps == {Absent, Given(<<"P", "w", "*">>), Given(<<"z", "*">>)}

NewApps == {Absent, Given(<<"n", "*">>)}

OldTitles == {Absent, Given(<<"*", "K", "e", "y", "*">>), Given(<<"*", "z">>)}

NewTitles == {Absent, Given(<<"*", "n">>)}

\* Calls of the mutations in one behaviour.
MaxMutations == 2

\* _save_rules: metadata.last_updated = datetime.now() in self.rules, and
\* the whole of self.rules dumped to the file.
SaveRules(rules, t) == [rules EXCEPT !.metadata.last_updated = t]

\* One call of a mutation, the clock read at t: self.rules is what the
\* method leaves, the file is rewritten when _save_rules ran and open()
\* did not raise.  When open() raises (save_ok FALSE), _save_rules has set
\* last_updated in self.rules already, logs the error and raises it again,
\* and the file is as it was.
Mutate(op, arg, result) ==
    /\ mutations < MaxMutations
    /\ mutations' = mutations + 1
    /\ \E t \in {now, now + Second} :
       \E save_ok \in IF result.saved THEN BOOLEAN ELSE {TRUE} :
          /\ now' = t
          /\ classifier_rules' = IF result.saved THEN SaveRules(result.rules, t)
                                 ELSE result.rules
          /\ rules_file' = IF result.saved /\ save_ok
                           THEN SaveRules(result.rules, t)
                           ELSE rules_file
          /\ api' = [op |-> op, arg |-> arg,
                     outcome |-> IF result.raised # None THEN result.raised
                                 ELSE IF save_ok THEN "ok" ELSE "OSError"]
    /\ UNCHANGED <<nsamples, polled, current_activity, activity_start,
                   idle_start, pattern_window, context, time_log, storage>>
    /\ UNCHANGED <<query, verdict, engineVars>>

UpdateCategoryPriorityCall(category, priority) ==
    Mutate("update_category_priority",
           [category |-> category, priority |-> priority],
           UpdateCategoryPriority(classifier_rules, category, priority))

RemovePatternCall(category, pattern_id) ==
    Mutate("remove_pattern",
           [category |-> category, pattern_id |-> pattern_id],
           RemovePattern(classifier_rules, category, pattern_id))

RemoveCategoryCall(category) ==
    Mutate("remove_category", [category |-> category],
           RemoveCategory(classifier_rules, category))

ModifyPatternCall(category, pattern_id, apps, days) ==
    Mutate("modify_pattern",
           [category |-> category, pattern_id |-> pattern_id,
            apps |-> apps, days |-> days],
           ModifyPattern(classifier_rules, category, pattern_id, apps, Absent,
                         Absent, days))

ModifyPrivacyRuleCall(old_app, new_app, old_title, new_title) ==
    Mutate("modify_privacy_rule",
           [old_app |-> old_app, new_app |-> new_app,
            old_title |-> old_title, new_title |-> new_title],
           ModifyPrivacyRule(classifier_rules, old_app, new_app, old_title,
                             new_title))

\* A pattern handed to add_rule
NewPattern ==
    [id |-> "p9", apps |-> << AppWeb >>, titles |-> << <<"*">> >>,
     time_ranges |-> << >>, days |-> << >>]

AddRuleCall(category, pattern, priority) ==
    Mutate("add_rule",
           [category |-> category, pattern |-> pattern, priority |-> priority],
           AddRule(classifier_rules, category, pattern, priority))

AddPrivacyRuleCall(excluded_app, excluded_title) ==
    Mutate("add_privacy_rule",
           [excluded_app |-> excluded_app, excluded_title |-> excluded_title],
           AddPrivacyRule(classifier_rules, excluded_app, excluded_title))

\* The priorities the calls give: inside CategoryRule's 1..100 and not.
Priorities == {0, 1, 50, 150}

RulesNext ==
    \/ \E category \in MutatedCategories,
          priority \in {Absent} \cup {Given(n) : n \in Priorities} :
          AddRuleCall(category, NewPattern, priority)
    \/ \E excluded_app \in NewApps, excluded_title \in NewTitles :
          AddPrivacyRuleCall(excluded_app, excluded_title)
    \/ \E category \in MutatedCategories, priority \in Priorities :
          UpdateCategoryPriorityCall(category, priority)
    \/ \E category \in MutatedCategories, pattern_id \in MutatedPatterns :
          RemovePatternCall(category, pattern_id)
    \/ \E category \in MutatedCategories : RemoveCategoryCall(category)
    \/ \E category \in MutatedCategories, pattern_id \in MutatedPatterns,
          apps \in {Absent, Given(<<AppWeb>>)},
          days \in {Absent, Given(<<"Sunday">>)} :
          ModifyPatternCall(category, pattern_id, apps, days)
    \/ \E old_app \in OldApps, new_app \in NewApps,
          old_title \in OldTitles, new_title \in NewTitles :
          ModifyPrivacyRuleCall(old_app, new_app, old_title, new_title)

(***************************************************************************)
(* The score of one text against one pattern                               *)
(***************************************************************************)
\* The longest text and pattern scored.
MaxLen == 2

\* The strings of length 1..n over an alphabet
RECURSIVE StringsUpTo(_, _)
StringsUpTo(alphabet, n) ==
    IF n = 0 THEN {}
    ELSE LET shorter == StringsUpTo(alphabet, n - 1)
         IN {<<ch>> : ch \in alphabet}
              \cup shorter
              \cup {Append(str, ch) : str \in shorter, ch \in alphabet}

\* Names of applications and window titles, in both cases of letters
MatchTexts == StringsUpTo({"a", "b", "B"}, MaxLen)

\* Patterns of a rule: letters in both cases and the two wildcards
MatchPatterns == StringsUpTo({"a", "B", "*", "?"}, MaxLen)

\* One text scored against one pattern, once in a behaviour.
MatchScoreCall(text, pat) ==
    /\ api.op = "none"
    /\ api' = [op |-> "match_score", arg |-> [text |-> text, pattern |-> pat],
               outcome |-> MatchScore(text, pat)]
    /\ UNCHANGED <<engineVars, sessionVars, classifierVars>>

MatchNext ==
    \E text \in MatchTexts, pat \in MatchPatterns : MatchScoreCall(text, pat)

Init == EngineInit /\ SessionInit /\ ApiInit /\ ClassifierInit

\* start() and stop() called from any of the caller threads, any interleaving.
EngineNext ==
    \/ \E c \in Callers : CallerStep(c)
    \/ \E w \in Workers : WorkerStep(w)

\* The sampling loop of one worker on the session and the storage.
Spec == Init /\ [][SessionNext]_vars

SpecSwitching == Init /\ [][SwitchingNext]_vars

SpecLogging == Init /\ [][LoggingNext]_vars

\* The loop of _track_activity while the user goes round the windows.
SpecRotating == Init /\ [][RotatingNext]_vars

SpecClassify == ClassifyInit /\ [][ClassifyNext]_vars

\* Activities stored, then one analytics query.
SpecAnalytics == Init /\ [][AnalyticsNext]_vars

\* TimeLogs persisted by the loop, then one query for the contexts.
SpecContexts == Init /\ [][ContextsNext]_vars

\* The activities table and the activity_context table under add, update
\* and delete.
SpecTables == Init /\ [][TablesNext]_vars

\* One text scored against one pattern.
SpecMatch == Init /\ [][MatchNext]_vars

\* The classifier loaded from a rule file, then one mutation of the rules.
SpecRules == ClassifyInit /\ [][RulesNext]_vars

SpecEngine == Init /\ [][EngineNext]_vars

\* start() and stop() called from the GUI thread only (core.py), one call
\* after the other; every worker thread that can take a step eventually does.
SeqNext ==
    \/ CallerStep("gui")
    \/ \E w \in Workers : WorkerStep(w)

SpecSeq == Init /\ [][SeqNext]_vars /\ \A w \in Workers : WF_vars(WorkerStep(w))

(***************************************************************************)
(* Engine claims                                                           *)
(***************************************************************************)
Spawned == {w \in Workers : wpc[w] # "unborn"}

\* C2: at any time at most one worker thread is inside the sampling loop,
\* whatever the interleaving of start() and stop() calls.
C2_AtMostOneWorker ==
    Cardinality({w \in Workers : wpc[w] \in InLoop}) <= 1

\* C3: start() on a running engine (is_running set) goes no further than its
\* check, so it changes nothing; a thread appears only in the spawn step of a
\* start(), and a start() that got past the check and returns normally has
\* spawned exactly one.
C3_StartIdempotent ==
    [][ /\ \A c \in Callers :
             (cpc[c] = "idle" /\ cpc'[c] = "start_clear") => ~is_running
        /\ \A c \in Callers :
             (cpc[c] = "start_spawn" /\ cpc'[c] = "idle"
                /\ tracking_thread' # NoThread)
             => Cardinality(Spawned') = Cardinality(Spawned) + 1
        /\ Spawned' # Spawned
             => \E c \in Callers : cpc[c] = "start_spawn" /\ cpc'[c] = "idle"
      ]_vars

\* C3 witness: the engine is running with its one worker and a caller is
\* free to call start() again.
C3_Witness ==
    /\ is_running
    /\ Cardinality(Spawned) = 1
    /\ \A c \in Callers : cpc[c] = "idle"

\* C4: from the return of a successful start() until the next stop() call,
\* get_status() is True and the worker of that start() is in its loop.
C4_RunningUntilStop ==
    since_start # NoThread =>
        /\ is_running
        /\ wpc[since_start] \in InLoop

\* C5: once stop() has set the flag and no start() clears it again, a worker
\* that sees the flag at the top of the loop starts no new iteration and never
\* re-enters the loop, every worker eventually is out of the loop, and the
\* stop() that joined returns with is_running False, worker exited or not.
C5_StopCancels ==
    /\ [][ \A w \in Workers :
             /\ (wpc[w] = "loop_check" /\ should_stop)
                   => wpc'[w] \in {"loop_check", "finally"}
             /\ wpc[w] \in {"finally", "done"}
                   => wpc'[w] \in {"finally", "done"} ]_vars
    /\ [][ \A c \in Callers :
             (cpc[c] = "stop_join" /\ cpc'[c] = "idle") => ~is_running' ]_vars
    /\ (<>[]should_stop) => <>[](\A w \in Workers : wpc[w] \notin InLoop)

\* C5 witness: stop() has returned (flag set, thread handle dropped) while
\* the worker is still inside its iteration: the join timed out.
C5_Witness ==
    /\ should_stop
    /\ ~is_running
    /\ tracking_thread = NoThread
    /\ cpc["gui"] = "idle"
    /\ \E w \in Workers : wpc[w] \in {"body", "sleep"}

\* C6: an exception in an iteration is caught: from the body the worker goes
\* to the handler, from there to the sleep (unless the stop flag is set) and
\* back to the top of the loop, never out of it; at the top, with the flag
\* clear and the engine running, it goes on to poll the tracker again.
C6_ExceptionCaught ==
    [][ \A w \in Workers :
          /\ wpc[w] = "body" => wpc'[w] \in {"body", "sleep", "except"}
          /\ wpc[w] = "except"
                => wpc'[w] \in {"except",
                                IF should_stop THEN "loop_check" ELSE "except_sleep"}
          /\ wpc[w] = "except_sleep" => wpc'[w] \in {"except_sleep", "loop_check"}
          /\ (wpc[w] = "loop_check" /\ ~should_stop)
                => wpc'[w] \in {"loop_check", "run_check"}
          /\ (wpc[w] = "run_check" /\ is_running)
                => wpc'[w] \in {"run_check", "body"} ]_vars

\* C6 witness: a worker sleeps in the exception handler of a running engine.
C6_Witness ==
    \E w \in Workers : wpc[w] = "except_sleep" /\ is_running /\ ~should_stop

(***************************************************************************)
(* Claims on the session, the classifier and the storage                   *)
(***************************************************************************)
Excluded(application, window_title) ==
    ShouldExcludeActivity(LoadedRules, application, window_title)

\* C1: a sample whose application or window title matches a privacy
\* exclusion is never recorded: no persisted TimeLog (its description) and
\* no persisted context sample or transition carries the application name
\* or the window title of such a sample.
C1_ExcludedNeverRecorded ==
    \A i \in 1..Len(storage) :
        LET row == storage[i]
            description == row.time_log.description
        IN /\ description.kind = "auto"
                => ~Excluded(description.application, description.window_title)
           /\ description.kind = "idle"
                => ~Excluded(description.previous, <<>>)
           /\ \A j \in 1..Len(row.context_activities) :
                ~Excluded(row.context_activities[j].application,
                          row.context_activities[j].window_title)
           /\ \A j \in 1..Len(row.transition_history) :
                /\ ~Excluded(row.transition_history[j].from_activity.application,
                             row.transition_history[j].from_activity.window_title)
                /\ ~Excluded(row.transition_history[j].to_activity.application,
                             row.transition_history[j].to_activity.window_title)

\* C7: the session never returns a TimeLog, activity or idle, shorter than
\* min_duration, and an activity TimeLog is returned only by an update for
\* which the activity then current had lasted min_duration or more, so
\* switches quicker than min_duration return none.
C7_NoShortTimeLog ==
    /\ [](time_log # NoLog
            => time_log.end_time - time_log.start_time >= min_duration * Second)
    /\ [][ (nsamples' # nsamples /\ time_log' # NoLog
              /\ time_log'.description.kind = "auto")
             => (/\ activity_start # NoTime
                 /\ now' - activity_start >= min_duration * Second) ]_vars

\* Two switches 5 s apart returned nothing; the third sample, 30 s later,
\* returned the TimeLog of the second activity, exactly min_duration long.
C7_Witness ==
    /\ Len(context.last_activities) = 3
    /\ context.last_activities[1].application
         # context.last_activities[2].application
    /\ context.last_activities[2].timestamp
         - context.last_activities[1].timestamp < min_duration * Second
    /\ time_log # NoLog
    /\ time_log.description.kind = "auto"
    /\ time_log.start_time = context.last_activities[2].timestamp
    /\ time_log.end_time - time_log.start_time = min_duration * Second

\* C8: when the current activity has lasted min_duration or more and a
\* sample of another application arrives without the idle timer firing,
\* update returns the TimeLog from activity_start to now with the category
\* of the ended activity (other if it had none), appends one transition
\* from the ended activity to the sample, and the sample becomes the
\* current activity, started now.
C8_TransitionEmitsTimeLog ==
    [][ (/\ nsamples' # nsamples
         /\ current_activity # NoActivity
         /\ activity_start # NoTime
         /\ now' - activity_start >= min_duration * Second
         /\ polled'.application # current_activity.application
         /\ ~HandleIdleState(Session, polled', now').fires)
        => (/\ time_log' # NoLog
            /\ time_log'.start_time = activity_start
            /\ time_log'.end_time = now'
            /\ time_log'.category = (IF current_activity.category # None
                                     THEN current_activity.category
                                     ELSE "other")
            /\ Len(context'.transition_history)
                 = Len(context.transition_history) + 1
            /\ SubSeq(context'.transition_history, 1,
                      Len(context.transition_history))
                 = context.transition_history
            /\ LET last == context'.transition_history[
                               Len(context'.transition_history)]
               IN /\ last.from_activity = current_activity
                  /\ last.to_activity = polled'
            /\ current_activity' = polled'
            /\ activity_start' = now') ]_vars

\* An activity without a category (an excluded window) ended after 30 s or
\* more: its TimeLog has the category other.
C8_Witness ==
    /\ time_log # NoLog
    /\ time_log.description.kind = "auto"
    /\ time_log.category = "other"
    /\ time_log.end_time = now
    /\ Len(context.transition_history) = 1
    /\ context.transition_history[1].from_activity.category = None
    /\ context.transition_history[1].to_activity = polled
    /\ current_activity = polled
    /\ activity_start = now

\* C9: the rolling last-activities window of the context never holds more
\* than context_window samples.
C9_WindowBounded == Len(context.last_activities) <= context_window

\* C10: the productivity score of the context lies in [0, 100] and its
\* focus score in [0, 1].
C10_ScoresInRange ==
    /\ 0 <= context.productivity_score
    /\ context.productivity_score <= 100 * ProductivityScale
    /\ 0 <= context.focus_score
    /\ context.focus_score <= FocusScale

\* A focused work sample in a peak hour: 100 * 1.0 * 1.2 * 1.2 is cut to 100.
C10_Witness ==
    /\ context.productivity_score = 100 * ProductivityScale
    /\ context.activity_patterns # <<>>
    /\ context.activity_patterns[Len(context.activity_patterns)] = "focused"
    /\ RawProductivityScore(now, context) > 100 * ProductivityScale

(***************************************************************************)
(* Claims on the validation of TimeLogs                                    *)
(***************************************************************************)
\* end after start and a duration of one second or more.
ValidInterval(log) ==
    /\ log.end_time > log.start_time
    /\ log.end_time - log.start_time >= Second

\* C11: the loop persists a TimeLog the session produced only if its end
\* is after its start and it lasts at least one second, and then as the
\* row of that TimeLog; for any other TimeLog, and for none, the storage
\* is left as it was.
C11_LoopPersistsValidOnly ==
    [][ nsamples' # nsamples
          => /\ storage' # storage
                  => /\ time_log' # NoLog
                     /\ ValidInterval(time_log')
                     /\ storage' = Append(storage, StoredRow(time_log', context'))
             /\ (time_log' = NoLog \/ ~ValidInterval(time_log'))
                  => storage' = storage ]_vars

\* The session produced a TimeLog of half a second and the loop dropped it.
C11_Witness ==
    /\ nsamples = 1
    /\ time_log # NoLog
    /\ time_log.end_time - time_log.start_time = 1
    /\ 1 < Second
    /\ storage = <<>>

\* C12: log_activity called with an end not after the start, or with a
\* duration under one second, fails with a validation error and writes
\* nothing: no such TimeLog is ever in the storage.
C12_InvalidIntervalRejected ==
    /\ (api.op = "log_activity" /\ ~ValidInterval(api.arg))
          => api.outcome = "ValueError"
    /\ \A i \in 1..Len(storage) : ValidInterval(storage[i].time_log)

(***************************************************************************)
(* Claims on the classifier                                                *)
(***************************************************************************)
Asked == query # NoQuery

\* The application of the query, or its title, lowered, matches one of the
\* exclusion globs of the rules.
QueryExcluded ==
    \/ \E i \in 1..Len(classifier_rules.privacy.excluded_apps) :
          MatchPattern(Lower(query.app_name),
                       classifier_rules.privacy.excluded_apps[i])
    \/ \E i \in 1..Len(classifier_rules.privacy.excluded_titles) :
          MatchPattern(Lower(query.window_title),
                       classifier_rules.privacy.excluded_titles[i])

\* C13: with idle seconds of 300 or more classify returns (idle, 1.0),
\* whatever the application, the title, the timestamp, the rule set and
\* the privacy exclusions.
C13_IdleFirst ==
    (Asked /\ query.idle_time >= 300)
        => verdict = [category |-> "idle", confidence |-> 10 * Scale]

\* An excluded application, idle for 300 s exactly, is classified idle.
C13_Witness ==
    /\ Asked
    /\ query.idle_time = 300
    /\ QueryExcluded
    /\ verdict.category = "idle"

\* C14, as stated: an application or a title that matches a privacy
\* exclusion, in any case of letters, gets (none, 0.0) for every value of
\* the idle seconds.
C14_ExcludedIsNone ==
    (Asked /\ QueryExcluded) => verdict = [category |-> None, confidence |-> 0]

\* C14, amended: an application or a title that matches a privacy
\* exclusion, in any case of letters, gets (none, 0.0) when the idle
\* seconds are under 300, and (idle, 1.0), as every sample does, from 300
\* on.
C14_ExcludedIsNoneBelowIdleThreshold ==
    (Asked /\ QueryExcluded)
        => verdict = IF query.idle_time < 300
                     THEN [category |-> None, confidence |-> 0]
                     ELSE [category |-> "idle", confidence |-> 10 * Scale]

\* A title in capitals matches the exclusion *Key*, under 300 s of idle.
C14_Witness ==
    /\ Asked
    /\ query.window_title = TitleKeyUpper
    /\ query.idle_time = 299
    /\ QueryExcluded
    /\ verdict = [category |-> None, confidence |-> 0]

\* The total scores (times 10 * Scale) of the patterns of all rule sets for
\* the query, each with the category of its rule set.
QueryScores ==
    UNION {{[category |-> classifier_rules.rules[k].category,
             score |-> TotalScore(classifier_rules.rules[k].patterns[j],
                                  query.app_name, query.window_title,
                                  query.timestamp)] :
               j \in 1..Len(classifier_rules.rules[k].patterns)} :
             k \in 1..Len(classifier_rules.rules)}

\* C15: for a sample neither idle nor excluded, when the highest total
\* score over the patterns of all rule sets is 0.3 or more, classify
\* returns the category of a pattern with that score and the score as the
\* confidence; it returns (default category, 0.3) when no pattern reaches
\* 0.3; the confidence is within [0, 1].
C15_HighestScoreWins ==
    (Asked /\ query.idle_time < 300 /\ ~QueryExcluded)
        => /\ 0 <= verdict.confidence
           /\ verdict.confidence <= 10 * Scale
           /\ IF \E s \in QueryScores : s.score >= 3 * Scale
              THEN \E s \in QueryScores :
                      /\ \A o \in QueryScores : o.score <= s.score
                      /\ verdict = [category |-> s.category,
                                    confidence |-> s.score]
              ELSE verdict = [category |-> classifier_rules.default.category,
                              confidence |-> 3 * Scale]


(***************************************************************************)
(* The analytics queries                                                   *)
(***************************************************************************)
\* The part of a TimeLog that falls on a day, in ticks.
Overlap(log, day) ==
    LET from == Later(log.start_time, Midnight(day))
        to == Earlier(log.end_time, Midnight(day + 1))
    IN IF to > from THEN to - from ELSE 0

\* C16: for every day of a heatmap the 24 hour buckets sum to the total
\* duration of the parts of the selected activities that fall on that day.
C16_BucketsSumToOverlap ==
    api.op = "get_heatmap" =>
        LET selected == SelectRows(storage, api.arg.start_date,
                                   api.arg.end_date, api.arg.category)
        IN \A day \in DOMAIN api.outcome :
              SumSeq([h \in 1..24 |-> api.outcome[day][h - 1]])
                = SumSeq([i \in 1..Len(selected) |->
                            Overlap(selected[i].time_log, day)])

RECURSIVE Flatten(_)
Flatten(seqs) == IF seqs = <<>> THEN <<>> ELSE Head(seqs) \o Flatten(Tail(seqs))

\* C17: the streaks returned for a category list the days whose summed
\* duration reaches the minimum once each in date order, each streak a run
\* of consecutive days, and no two streaks in a row could be one run.
C17_StreaksAreMaximalRuns ==
    api.op = "get_activity_streaks" =>
        LET streaks == api.outcome
            qualifying ==
                {d \in ActivityDates(storage, api.arg.category) :
                    DailyHours(storage, api.arg.category, d)
                        >= api.arg.minimum_daily_hours}
            listed == Flatten(streaks)
        IN /\ [i \in 1..Len(listed) |-> listed[i].date] = Ascending(qualifying)
           /\ \A i \in 1..Len(listed) :
                 listed[i].hours
                    = DailyHours(storage, api.arg.category, listed[i].date)
           /\ \A n \in 1..Len(streaks) :
                 /\ streaks[n] # <<>>
                 /\ \A k \in 2..Len(streaks[n]) :
                       streaks[n][k].date = streaks[n][k - 1].date + 1
           /\ \A n \in 2..Len(streaks) :
                 streaks[n][1].date
                    > streaks[n - 1][Len(streaks[n - 1])].date + 1

(***************************************************************************)
(* The stored contexts                                                     *)
(***************************************************************************)
\* activity_patterns[-1] of a context, None for an empty history
LastPattern(ctx) ==
    IF ctx.activity_patterns = <<>> THEN None
    ELSE ctx.activity_patterns[Len(ctx.activity_patterns)]

\* The last iteration of the loop persisted its TimeLog, with the context
\* the session has, and the range asked for contains the TimeLog.
LastLogAskedFor ==
    /\ api.op = "get_activity_contexts"
    /\ time_log # NoLog
    /\ storage # <<>>
    /\ storage[Len(storage)].time_log = time_log
    /\ time_log.start_time >= api.arg.start_date
    /\ time_log.end_time <= api.arg.end_date

\* C18: the context returned for a TimeLog just persisted has the focus
\* score, the productivity score and the last pattern of the context it
\* was persisted with.
C18_ContextRoundTrip ==
    LastLogAskedFor /\ api.arg.category = None =>
        /\ api.outcome.raised = None
        /\ api.outcome.contexts # <<>>
        /\ LET returned == api.outcome.contexts[Len(api.outcome.contexts)]
           IN /\ returned.focus_score = context.focus_score
              /\ returned.productivity_score = context.productivity_score
              /\ LastPattern(returned) = LastPattern(context)

\* C19: asked with a category, get_activity_contexts does not fail and
\* returns the contexts of the stored activities of the range that have
\* the category, and no other.
C19_CategoryFilterApplied ==
    api.op = "get_activity_contexts" /\ api.arg.category # None =>
        LET selected == SelectRows(storage, api.arg.start_date,
                                   api.arg.end_date, api.arg.category)
        IN /\ api.outcome.raised = None
           /\ api.outcome.contexts
                = [i \in 1..Len(selected) |-> RetrievedContext(selected[i])]

(***************************************************************************)
(* The mutations of the rules                                              *)
(***************************************************************************)
\* The call names a category that has no rule set, a pattern id that the
\* rule set lacks, or a privacy pattern that is not in its list.
UnknownReference(op, arg, rules) ==
    LET unknown_category ==
            \A k \in 1..Len(rules.rules) : rules.rules[k].category # arg.category
        unknown_pattern ==
            \A k \in 1..Len(rules.rules) :
               rules.rules[k].category = arg.category =>
                  \A j \in 1..Len(rules.rules[k].patterns) :
                     rules.rules[k].patterns[j].id # arg.pattern_id
    IN CASE op \in {"update_category_priority", "remove_category"} ->
               unknown_category
         [] op \in {"remove_pattern", "modify_pattern"} ->
               unknown_category \/ unknown_pattern
         [] op = "modify_privacy_rule" ->
               \/ /\ arg.old_app # Absent /\ arg.new_app # Absent
                  /\ \A i \in 1..Len(rules.privacy.excluded_apps) :
                        rules.privacy.excluded_apps[i] # arg.old_app[1]
               \/ /\ arg.old_title # Absent /\ arg.new_title # Absent
                  /\ \A i \in 1..Len(rules.privacy.excluded_titles) :
                        rules.privacy.excluded_titles[i] # arg.old_title[1]
         [] OTHER -> FALSE

\* C20: a mutation that names an unknown category, pattern id or privacy
\* pattern raises and leaves the rules in memory and the rules in the file
\* as they were.
C20_UnknownReferenceChangesNothing ==
    [][UnknownReference(api'.op, api'.arg, classifier_rules) =>
          /\ api'.outcome = "ValueError"
          /\ classifier_rules' = classifier_rules
          /\ rules_file' = rules_file]_vars

\* C21: after a mutation that returns normally the file holds the whole of
\* the rules in memory, and its last_updated is not older than before.
C21_SuccessfulMutationSavesAll ==
    [][mutations' # mutations /\ api'.outcome = "ok" =>
          /\ rules_file' = classifier_rules'
          /\ rules_file'.metadata.last_updated
                >= rules_file.metadata.last_updated]_vars

\* A second mutation has returned normally, the clock having moved, and
\* the file holds the pattern it added.
C21_Witness ==
    /\ mutations = 2
    /\ api.outcome = "ok"
    /\ api.op = "add_privacy_rule"
    /\ rules_file.metadata.last_updated > 0
    /\ rules_file = classifier_rules
    /\ \E i \in 1..Len(rules_file.privacy.excluded_apps) :
          rules_file.privacy.excluded_apps[i] = <<"n", "*">>

\* C30: every category rule of the rules in memory and of the file has a
\* priority within 1..100.
C30_PrioritiesInRange ==
    \A rules \in {classifier_rules, rules_file} :
       \A k \in 1..Len(rules.rules) :
          rules.rules[k].priority >= 1 /\ rules.rules[k].priority <= 100

(***************************************************************************)
(* The productivity scores                                                 *)
(***************************************************************************)
\* The stored contexts of the range asked for that have a sample in the
\* five minutes from t.
Sampled(t) ==
    {i \in 1..Len(storage) :
        /\ storage[i].time_log.start_time >= api.arg.start_time
        /\ storage[i].time_log.end_time <= api.arg.end_time
        /\ \E j \in 1..Len(storage[i].context_activities) :
              /\ storage[i].context_activities[j].timestamp >= t
              /\ storage[i].context_activities[j].timestamp < t + 300 * Second}

\* The last step at or before step k (counted from 0) that has a sample,
\* -1 for none
RECURSIVE LastSampled(_)
LastSampled(k) ==
    IF k < 0 THEN -1
    ELSE IF Sampled(api.arg.start_time + k * 300 * Second) # {} THEN k
    ELSE LastSampled(k - 1)

RECURSIVE SumOver(_, _)
SumOver(rows, S) ==
    IF S = {} THEN 0
    ELSE LET i == CHOOSE x \in S : TRUE
         IN rows[i].productivity_score + SumOver(rows, S \ {i})

\* C22: the scores are one point for each step of five minutes from the
\* start up to the end, in time order; a step with samples has the average
\* of the productivity scores of the contexts sampled in it, a step without
\* has the score of the step before, and 0 if there is no step before with
\* samples.
C22_OnePointPerStep ==
    api.op = "get_productivity_scores" =>
        LET steps == (api.arg.end_time - api.arg.start_time) \div (300 * Second)
            scores == api.outcome
        IN /\ Len(scores) = steps + 1
           /\ \A k \in 0..steps :
                 LET from == LastSampled(k)
                     found == Sampled(api.arg.start_time + from * 300 * Second)
                 IN /\ k + 1 \in DOMAIN scores
                    /\ scores[k + 1].timestamp
                          = api.arg.start_time + k * 300 * Second
                    /\ IF from = -1 THEN scores[k + 1].num = 0
                       ELSE /\ scores[k + 1].num = SumOver(storage, found)
                            /\ scores[k + 1].den = Cardinality(found)

(***************************************************************************)
(* The idle periods                                                        *)
(***************************************************************************)
\* The sample taken in this step has idle seconds, an idle timer was
\* running, and the time since idle_start is over 60 s times the mean
\* weight of the last three patterns (1 with no pattern or no activity in
\* the context).
IdleLimitPassed ==
    /\ polled'.idle_time > 0
    /\ idle_start # NoTime
    /\ LET recent == LastN(pattern_window, 3)
           weights == [i \in 1..Len(recent) |-> ContextWeight(recent[i])]
       IN IF context.last_activities = <<>> \/ recent = <<>>
          THEN now' - idle_start > 60 * Second
          ELSE (now' - idle_start) * 10 * Len(recent)
                  > 60 * Second * SumSeq(weights)

\* C23: an iteration returns the idle TimeLog exactly when its sample has
\* idle seconds, an idle timer is running and the limit is passed; the log
\* has category idle and spans idle_start to now, and the session is left
\* without current activity, activity start and idle timer.
C23_IdleLogWhenLimitPassed ==
    [][nsamples' = nsamples + 1 =>
          /\ (time_log'.description.kind = "idle") <=> IdleLimitPassed
          /\ IdleLimitPassed =>
                /\ time_log'.category = "idle"
                /\ time_log'.start_time = idle_start
                /\ time_log'.end_time = now'
                /\ current_activity' = NoActivity
                /\ activity_start' = NoTime
                /\ idle_start' = NoTime]_vars

\* An idle TimeLog was returned while an activity was current before.
C23_Witness ==
    /\ time_log.description.kind = "idle"
    /\ time_log.description.previous # <<"N", "o", "n", "e">>
    /\ time_log.end_time = now
    /\ time_log.end_time - time_log.start_time > 60 * Second
    /\ current_activity = NoActivity

(***************************************************************************)
(* The score of a text against a pattern                                   *)
(***************************************************************************)
\* C24: the score is 1.0 when text and pattern are equal but for the case
\* of letters, and 0.9 when they are not and the pattern, a glob with `*`
\* and `?`, matches the text.
C24_ExactOrGlobScore ==
    api.op = "match_score" =>
        LET text == Lower(api.arg.text)
            pat == Lower(api.arg.pattern)
        IN /\ text = pat => api.outcome = Scale
           /\ text # pat /\ GlobMatch(text, pat, 1, 1) =>
                 10 * api.outcome = 9 * Scale

(***************************************************************************)
(* The peak hours of the metrics                                           *)
(***************************************************************************)
\* The part of a TimeLog that falls in an hour of day, over the days of the
\* stored activities, in ticks.
InHour(log, hour) ==
    SumSeq([d \in 1..5 |->
              LET from == Later(log.start_time, Clock(d - 1, hour, 0, 0))
                  to == Earlier(log.end_time, Clock(d - 1, hour + 1, 0, 0))
              IN IF to > from THEN to - from ELSE 0])

\* The summed duration of the selected activities within an hour of day
SummedInHour(rows, hour) ==
    SumSeq([i \in 1..Len(rows) |-> InHour(rows[i].time_log, hour)])

\* C25: the peak hours are at most three distinct hours of day, by
\* descending summed duration of the activities in the range within each
\* hour and by ascending hour when equal, and no hour left out has a larger
\* summed duration than a listed one.
C25_PeakHoursByDuration ==
    api.op = "get_metrics" =>
        LET selected == SelectRows(storage, api.arg.start_date,
                                   api.arg.end_date, api.arg.category)
            peak == api.outcome.peak_hours
            listed == {peak[i] : i \in 1..Len(peak)}
        IN /\ Len(peak) <= 3
           /\ Cardinality(listed) = Len(peak)
           /\ \A i \in 1..Len(peak) - 1 :
                 \/ SummedInHour(selected, peak[i])
                      > SummedInHour(selected, peak[i + 1])
                 \/ /\ SummedInHour(selected, peak[i])
                         = SummedInHour(selected, peak[i + 1])
                    /\ peak[i] < peak[i + 1]
           /\ \A h \in listed, u \in (0..23) \ listed :
                 SummedInHour(selected, u) <= SummedInHour(selected, h)

(***************************************************************************)
(* The pattern detected for a sample                                       *)
(***************************************************************************)
\* The sample of this step went through _detect_activity_pattern: update
\* did not return an idle log before it.
PatternDetected ==
    /\ nsamples' = nsamples + 1
    /\ time_log'.description.kind # "idle"

\* C26: the pattern detected for a sample with idle seconds above 0 is
\* idle, whatever the session holds, an empty context window included.
C26_IdleSampleDetectedIdle ==
    [][PatternDetected /\ polled'.idle_time > 0 =>
          /\ pattern_window' # <<>>
          /\ pattern_window'[Len(pattern_window')] = "idle"]_vars

(***************************************************************************)
(* The patterns the session can detect                                     *)
(***************************************************************************)
\* The pattern update() detected for the last sample
LastDetected ==
    IF pattern_window = <<>> THEN None
    ELSE pattern_window[Len(pattern_window)]

\* The applications of the context window
UniqueApps ==
    {context.last_activities[i].application :
        i \in 1..Len(context.last_activities)}

\* The context window holds n applications and at least two transitions
\* are recorded, so that a transition rate is computed.
Switching(n) ==
    /\ Cardinality(UniqueApps) = n
    /\ Len(context.transition_history) >= 2

\* C27: DISTRACTED and MULTITASKING are detectable.  While the user goes to
\* another application every 30 to 35 seconds, the quickest switching that
\* is recorded, a sample is detected as multitasking when the window holds
\* two or three applications, and as distracted when it holds more than
\* three.
C27_SwitchingDetected ==
    [][nsamples' = nsamples + 1 =>
          /\ Switching(2) \/ Switching(3) => LastDetected' = "multitasking"
          /\ Switching(4) => LastDetected' = "distracted"]_vars
(***************************************************************************)
(* The rule sets the classification skips                                  *)
(***************************************************************************)
\* The scan of the rule sets in which a rule set is skipped only when the
\* best match so far has a strictly lower priority number.
RECURSIVE ScanSkippingLower(_, _, _, _, _, _)
ScanSkippingLower(rule_sets, k, best, app_name, window_title, timestamp) ==
    IF k > Len(rule_sets) THEN best
    ELSE LET rule_set == rule_sets[k]
             nxt == IF best.match # None /\ rule_set.priority > best.priority
                    THEN best
                    ELSE ScanPatterns(rule_set, 1, best, app_name, window_title,
                                      timestamp)
         IN ScanSkippingLower(rule_sets, k + 1, nxt, app_name, window_title,
                              timestamp)

\* C28: a rule set is skipped only when a match was found in a rule set of
\* strictly lower priority number; a rule set of the priority of the best
\* match so far is scored and replaces it when its total score is higher.
C28_EqualPriorityStillScored ==
    (Asked /\ query.idle_time < 300 /\ ~QueryExcluded) =>
        LET best == ScanSkippingLower(classifier_rules.rules, 1,
                                      [match |-> None, score |-> 0,
                                       priority |-> 0],
                                      query.app_name, query.window_title,
                                      query.timestamp)
        IN verdict = IF best.match = None \/ best.score < 3 * Scale
                     THEN [category |-> classifier_rules.default.category,
                           confidence |-> 3 * Scale]
                     ELSE [category |-> best.match, confidence |-> best.score]

(***************************************************************************)
(* The order in which the rule sets are evaluated                          *)
(***************************************************************************)
\* No two rule sets have the same priority number.
DistinctPriorities(rule_sets) ==
    \A i, j \in 1..Len(rule_sets) :
       i # j => rule_sets[i].priority # rule_sets[j].priority

\* The rule sets by ascending priority number
RECURSIVE ByPriority(_)
ByPriority(rule_sets) ==
    IF rule_sets = <<>> THEN <<>>
    ELSE LET i == CHOOSE x \in 1..Len(rule_sets) :
                     \A y \in 1..Len(rule_sets) :
                        rule_sets[x].priority <= rule_sets[y].priority
         IN <<rule_sets[i]>> \o ByPriority(RemoveAt(rule_sets, i))

\* C29: the rule sets are evaluated by ascending priority number: with
\* pairwise distinct priorities the result of a classification is the one
\* for the rule sets in that order, whatever their order in the mapping.
C29_EvaluatedByPriority ==
    (Asked /\ DistinctPriorities(classifier_rules.rules)) =>
        verdict = ClassifyActivity(
                      [classifier_rules EXCEPT !.rules = ByPriority(@)],
                      query.app_name, query.window_title, query.timestamp,
                      query.idle_time)

(***************************************************************************)
(* The durations per category of the session context                       *)
(***************************************************************************)
\* The sum of the values of a dict
RECURSIVE DictSum(_, _)
DictSum(d, keys) ==
    IF keys = {} THEN 0
    ELSE LET key == CHOOSE x \in keys : TRUE
         IN d[key] + DictSum(d, keys \ {key})

\* C31: the durations per category of the context are the time spent in
\* the activities of each category, so their sum is never above the time
\* gone by since the first sample (the first entry of the context window,
\* as long as the window has not been cut).
C31_DurationsWithinElapsed ==
    (nsamples >= 1 /\ nsamples <= context_window) =>
        DictSum(context.category_durations, DOMAIN context.category_durations)
           <= now - context.last_activities[1].timestamp

(***************************************************************************)
(* The idle timer                                                          *)
(***************************************************************************)
\* C32: a sample with no idle seconds cancels the idle timer, so an idle
\* TimeLog spans a period in which every sample had idle seconds: the
\* sample that ends it and every sample of the context window from its
\* start on (the window holds every earlier sample until it is cut).
C32_IdleLogSpansIdleSamples ==
    [][nsamples' = nsamples + 1 =>
          /\ polled'.idle_time = 0 => idle_start' = NoTime
          /\ (time_log'.description.kind = "idle"
                 /\ nsamples' <= context_window) =>
                /\ polled'.idle_time > 0
                /\ \E i \in 1..Len(context.last_activities) :
                      context.last_activities[i].timestamp
                         = time_log'.start_time
                /\ \A i \in 1..Len(context.last_activities) :
                      context.last_activities[i].timestamp
                         >= time_log'.start_time
                      => context.last_activities[i].idle_time > 0]_vars

\* An idle TimeLog was returned whose timer started after a sample with no
\* idle seconds.
C32_Witness ==
    /\ time_log.description.kind = "idle"
    /\ time_log.end_time = now
    /\ \E i \in 1..Len(context.last_activities) :
          /\ context.last_activities[i].idle_time = 0
          /\ context.last_activities[i].timestamp < time_log.start_time

C34_SleepBetweenPolls ==
    [][\A w \in Workers :
          (wpc[w] = "body" /\ wpc'[w] # "body") => slept[w]]_vars

(***************************************************************************)
(* The rows of activity_context                                            *)
(***************************************************************************)
\* C35: every activity_context row refers to an activities row that
\* exists.
C35_NoContextWithoutActivity ==
    ContextIds(storage) \subseteq ActivityIds(storage)

(***************************************************************************)
(* The TimeLogs of one session                                             *)
(***************************************************************************)
\* C36: the TimeLogs a session emits do not overlap and come in the order
\* of their starts: a TimeLog update() returns starts no earlier than the
\* end of every TimeLog emitted before (those emitted before and stored
\* are the rows of the storage).
C36_TimeLogsDoNotOverlap ==
    [][(nsamples' = nsamples + 1 /\ time_log' # NoLog) =>
          \A i \in 1..Len(storage) :
             storage[i].time_log.end_time <= time_log'.start_time]_vars

\* The current activity is at least min_duration old at the sample of this
\* step, which replaces or clears it.
LongActivityEnded ==
    /\ nsamples' = nsamples + 1
    /\ current_activity # NoActivity
    /\ activity_start # NoTime
    /\ now' - activity_start >= min_duration * Second
    /\ activity_start' # activity_start

\* C37: an activity that was current for min_duration or more is reported
\* by a TimeLog covering it, from its start to the sample that replaces or
\* clears it, an idle TimeLog included.
C37_LongActivityReported ==
    [][LongActivityEnded =>
          /\ time_log' # NoLog
          /\ time_log'.start_time <= activity_start
          /\ time_log'.end_time >= now']_vars

\* An iteration whose sample has the application and the window title of
\* the activity that is current before it, and that does not end in an
\* idle TimeLog clearing that activity.
IdenticalSample ==
    /\ nsamples' = nsamples + 1
    /\ current_activity # NoActivity
    /\ polled'.application = current_activity.application
    /\ polled'.window_title = current_activity.window_title
    /\ current_activity' # NoActivity

\* C38: a sample with the same application and the same window title as
\* the current activity is never taken for a transition, whatever the
\* title (the empty one included) and whatever the recent patterns: the
\* start time of the current activity stays what it was.
C38_IdenticalSampleKeepsStart ==
    [][IdenticalSample => activity_start' = activity_start]_vars

\* The rules a rule set describes: everything but the time of the last
\* save.
Described(rules) ==
    [rules |-> rules.rules, default |-> rules.default, privacy |-> rules.privacy]

\* C39: after a rule mutation has returned or raised, the rules in memory
\* and the rule file describe the same rules; a mutation whose save to
\* the file failed is not left applied in memory.
C39_MemoryAndFileAgree ==
    [][(mutations' # mutations /\ Described(classifier_rules) = Described(rules_file))
          => Described(classifier_rules') = Described(rules_file')]_vars
====
